---------------------------- MODULE Spec2Model ----------------------------
(***************************************************************************)
(* Data-reduction engine of the MultiQC plotly charts:                     *)
(*   - find_outliers                 (plots/plotly/violin.py)              *)
(*   - violin Dataset.create / create_figure (plots/plotly/violin.py)      *)
(*   - violin format_dataset_for_ai_prompt   (plots/plotly/violin.py)      *)
(*   - ViolinPlot.create / add_to_report     (plots/plotly/violin.py)      *)
(*   - BarPlot.create, bar create_figure     (plots/plotly/bar.py)         *)
(*   - scatter Dataset.create_figure (plots/plotly/scatter.py)             *)
(*                                                                         *)
(* Conventions.                                                            *)
(*   Optional[T]  : a sequence of length <= 1 (None is << >>, v is <<v>>). *)
(*   Python dict  : a sequence of records [s |-> key, v |-> value] in      *)
(*                  insertion order (dicts keep insertion order).          *)
(*   Python float : see the section "IEEE-754 doubles near k/10".          *)
(***************************************************************************)
EXTENDS Integers, Sequences, FiniteSets, TLC

VARIABLES
    \* ---- find_outliers(values, top_n, z_cutoff, minval, maxval) ----
    values,          \* argument: the series
    top_n,           \* argument: Optional[int]
    minval,          \* argument: Optional[number]
    maxval,          \* argument: Optional[number]
    z_cutoff_arg,    \* argument: z_cutoff as passed (a double)
    z_cutoff,        \* the local z_cutoff (a double), lowered by the search
    indices,         \* the local indices = np.where(z_scores > z_cutoff)[0]
    outlier_status,  \* the returned mask
    n_decrements,    \* how many times "z_cutoff -= 0.2" ran
    fo_pc,           \* "call" | "search" | "returned" ("idle": no call is modelled)
    \* ---- violin Dataset.create / create_figure ----
    config,          \* violin_min_threshold_no_points / _outliers, violin_downsample_after
    dt,              \* the DataTable: a sequence of columns
    ds,              \* the Dataset built by create
    fig,             \* what the last create_figure drew
    v_pc,            \* "new" | "created" | "drawn" ("idle": no dataset is modelled)
    prompt,          \* what the last format_dataset_for_ai_prompt returned or raised
    \* ---- ViolinPlot.create / add_to_report ----
    vp_in,           \* no_violin, show_table_by_default, config.max_table_rows
    vp,              \* the ViolinPlot built by create
    vp_html,         \* what add_to_report rendered
    vp_pc,           \* "new" | "created" | "reported" ("idle": no ViolinPlot is modelled)
    \* ---- BarPlot.create ----
    bar_in,          \* the arguments of BarPlot.create
    bar_model,       \* the plot built (datasets with cats and samples)
    bar_fig,         \* what the last bar create_figure drew
    bar_pc,          \* "new" | "ready" | "ValueError" | "AssertionError" ("idle": no bar plot)
    \* ---- scatter Dataset.create_figure ----
    sc_points,       \* the points of the scatter Dataset (create_figure annotates them)
    sc_fig,          \* what the last create_figure drew
    sc_pc            \* "created" | "drawn" ("idle": no scatter dataset is modelled)

fo_vars == <<values, top_n, minval, maxval, z_cutoff_arg, z_cutoff, indices, outlier_status,
             n_decrements, fo_pc>>
violin_vars == <<config, dt, ds, fig, v_pc, prompt>>
plot_vars == <<vp_in, vp, vp_html, vp_pc>>
bar_vars == <<bar_in, bar_model, bar_fig, bar_pc>>
scatter_vars == <<sc_points, sc_fig, sc_pc>>
vars == <<fo_vars, violin_vars, plot_vars, bar_vars, scatter_vars>>

(***************************************************************************)
(* Bounds of the model.                                                    *)
(***************************************************************************)
MaxLen == 3          \* longest series handed to find_outliers
MaxVal == 2          \* find_outliers: series values and sentinels are in 0..MaxVal
MaxTopN == 3         \* top_n ranges over None and 0..MaxTopN
MaxCutoff == 3       \* the z_cutoff argument is 1.0, 2.0, ..., MaxCutoff.0

None == << >>
Some(x) == <<x>>
Optional(S) == {None} \cup {Some(x) : x \in S}

(***************************************************************************)
(* Generic helpers.                                                        *)
(***************************************************************************)
RECURSIVE Sum(_)
Sum(s) == IF s = << >> THEN 0 ELSE Head(s) + Sum(Tail(s))

RECURSIVE SumSq(_)
SumSq(s) == IF s = << >> THEN 0 ELSE Head(s) * Head(s) + SumSq(Tail(s))

Min2(a, b) == IF a <= b THEN a ELSE b

SeqsUpTo(S, n) == UNION {[1..m -> S] : m \in 0..n}

(***************************************************************************)
(* IEEE-754 doubles near k/10.                                             *)
(*                                                                         *)
(* z_cutoff is a Python float.  The record [k, e] stands for the double    *)
(*     k/10 + e * (2^-54 / 5)                                              *)
(* i.e. the decimal k/10 plus an error counted in fifths of 2^-54.  The    *)
(* doubles 1.0, 2.0, 3.0, ... are exact (e = 0) and the double 0.2 is      *)
(* 0x1.999999999999ap-3 = 2/10 + 1 * (2^-54 / 5).  In fifths of 2^-54 the  *)
(* value of [k, e] is k * 2^53 + e, and 2^53 mod 160 = 32, so the residue  *)
(* of the value modulo 160 is (32 * k + e) mod 160: enough to round to the *)
(* nearest multiple of an ulp of 10, 20, 40 or 80 fifths (the ulps of the  *)
(* binades [0.5,1), [1,2), [2,4) and [4,8)), ties to even.                 *)
(***************************************************************************)
Double(k) == [k |-> k, e |-> 0]

UlpOf(k, e) ==
    IF k > 40 \/ (k = 40 /\ e >= 0) THEN 80
    ELSE IF k > 20 \/ (k = 20 /\ e >= 0) THEN 40
    ELSE IF k > 10 \/ (k = 10 /\ e >= 0) THEN 20
    ELSE 10

\* round-to-nearest-even of the exact real [k, e] to a double
RoundToDouble(k, e) ==
    LET ulp == UlpOf(k, e)
        v   == (32 * k + e) % 160
        r   == v % ulp
        odd == (v % (2 * ulp)) >= ulp
        up  == (2 * r > ulp) \/ (2 * r = ulp /\ odd)
    IN  [k |-> k, e |-> e - r + (IF up THEN ulp ELSE 0)]

\* z_cutoff -= 0.2
SubtractPoint2(c) == RoundToDouble(c.k - 2, c.e - 1)

\* z_cutoff > 1.0
GreaterThanOne(c) == c.k > 10 \/ (c.k = 10 /\ c.e > 0)

\* c < 1.0
LessThanOne(c) == c.k < 10 \/ (c.k = 10 /\ c.e < 0)

(***************************************************************************)
(* find_outliers: the statistics.                                          *)
(*                                                                         *)
(* With N = len(np_values), S = sum and Q = sum of squares,                *)
(*     N * (x_i - mean) = N * x_i - S          (Dev)                       *)
(*     N^2 * std_dev^2  = N * Q - S^2          (VarN)                      *)
(*     z_i^2            = Dev_i^2 / VarN                                   *)
(* so every test on z-scores is a test on integers.  z_i > c for a double  *)
(* c = [k, e]: z_i^2 is a ratio of small integers, hence either differs    *)
(* from (k/10)^2 by far more than the rounding error e, or z_i = k/10      *)
(* exactly and the sign of e decides.                                      *)
(***************************************************************************)
NpValues(vals, lo, hi) == vals \o lo \o hi        \* np.array(values + added_values)

AddedValues(lo, hi) == lo \o hi

Dev(np, i) == Len(np) * np[i] - Sum(np)

VarN(np) == Len(np) * SumSq(np) - Sum(np) * Sum(np)

StdDevIsZero(np) == VarN(np) = 0

ZGreater(np, i, c) ==
    LET a == 100 * Dev(np, i) * Dev(np, i)
        b == c.k * c.k * VarN(np)
    IN  IF a # b THEN a > b ELSE c.e < 0

\* np.where(z_scores > z_cutoff)[0]
Where(np, c) == {i \in 1..Len(np) : ZGreater(np, i, c)}

\* the sets np.argsort(z_scores)[-top_n:] can be: argsort's default sort is not
\* stable, so equal z-scores may come in any order
TopNSets(np, n) ==
    {T \in SUBSET (1..Len(np)) :
        /\ Cardinality(T) = Min2(n, Len(np))
        /\ \A i \in T, j \in (1..Len(np)) \ T :
              Dev(np, i) * Dev(np, i) >= Dev(np, j) * Dev(np, j)}

\* outlier_status = np.zeros(n, dtype=bool); outlier_status[T] = True
MaskOf(T, n) == [i \in 1..n |-> i \in T]

\* if added_values: outlier_status = outlier_status[: -len(added_values)]
StripSentinels(mask, added) ==
    IF added # << >> THEN SubSeq(mask, 1, Len(mask) - Len(added)) ELSE mask

\* while len(indices) <= len(added_values) and z_cutoff > 1.0
SearchContinues(idx, added, c) ==
    Cardinality(idx) <= Len(added) /\ GreaterThanOne(c)

\* the cutoff the search ends with
RECURSIVE SearchCutoff(_, _, _)
SearchCutoff(np, added, c) ==
    IF SearchContinues(Where(np, c), added, c)
    THEN SearchCutoff(np, added, SubtractPoint2(c))
    ELSE c

\* find_outliers(values, minval=lo, maxval=hi): top_n None, z_cutoff 2.0
DefaultCutoff == 20
FindOutliersDefault(vals, lo, hi) ==
    LET np    == NpValues(vals, lo, hi)
        added == AddedValues(lo, hi)
    IN  IF Len(vals) = 0 THEN << >>
        ELSE IF StdDevIsZero(np) THEN MaskOf({}, Len(np))
        ELSE StripSentinels(
                 MaskOf(Where(np, SearchCutoff(np, added, Double(DefaultCutoff))), Len(np)),
                 added)

(***************************************************************************)
(* find_outliers: one call, step by step.                                  *)
(***************************************************************************)

np_values == NpValues(values, minval, maxval)
added_values == AddedValues(minval, maxval)

\* line 731-732: empty series, or top_n <= 0
ReturnEmpty ==
    /\ fo_pc = "call"
    /\ Len(values) = 0 \/ (top_n # None /\ top_n[1] <= 0)
    /\ outlier_status' = MaskOf({}, Len(values))
    /\ fo_pc' = "returned"
    /\ UNCHANGED <<violin_vars, bar_vars, scatter_vars, plot_vars>>
    /\ UNCHANGED <<values, top_n, minval, maxval, z_cutoff_arg, z_cutoff, indices, n_decrements>>

\* line 745-747: std_dev == 0
ReturnSameValues ==
    /\ fo_pc = "call"
    /\ ~(Len(values) = 0 \/ (top_n # None /\ top_n[1] <= 0))
    /\ StdDevIsZero(np_values)
    /\ outlier_status' = MaskOf({}, Len(np_values))
    /\ fo_pc' = "returned"
    /\ UNCHANGED <<violin_vars, bar_vars, scatter_vars, plot_vars>>
    /\ UNCHANGED <<values, top_n, minval, maxval, z_cutoff_arg, z_cutoff, indices, n_decrements>>

\* line 754-755 and 764-766: the top_n branch
ReturnTopN ==
    /\ fo_pc = "call"
    /\ ~(Len(values) = 0 \/ (top_n # None /\ top_n[1] <= 0))
    /\ ~StdDevIsZero(np_values)
    /\ top_n # None
    /\ \E T \in TopNSets(np_values, top_n[1]) :
          /\ indices' = T
          /\ outlier_status' = StripSentinels(MaskOf(T, Len(np_values)), added_values)
    /\ fo_pc' = "returned"
    /\ UNCHANGED <<violin_vars, bar_vars, scatter_vars, plot_vars>>
    /\ UNCHANGED <<values, top_n, minval, maxval, z_cutoff_arg, z_cutoff, n_decrements>>

\* line 757: the first np.where
FirstCutoff ==
    /\ fo_pc = "call"
    /\ ~(Len(values) = 0 \/ (top_n # None /\ top_n[1] <= 0))
    /\ ~StdDevIsZero(np_values)
    /\ top_n = None
    /\ indices' = Where(np_values, z_cutoff)
    /\ fo_pc' = "search"
    /\ UNCHANGED <<violin_vars, bar_vars, scatter_vars, plot_vars>>
    /\ UNCHANGED <<values, top_n, minval, maxval, z_cutoff_arg, z_cutoff, outlier_status, n_decrements>>

\* line 758-761: one iteration of the while loop
LowerCutoff ==
    /\ fo_pc = "search"
    /\ SearchContinues(indices, added_values, z_cutoff)
    /\ z_cutoff' = SubtractPoint2(z_cutoff)
    /\ indices' = Where(np_values, SubtractPoint2(z_cutoff))
    /\ n_decrements' = n_decrements + 1
    /\ UNCHANGED <<violin_vars, bar_vars, scatter_vars, plot_vars>>
    /\ UNCHANGED <<values, top_n, minval, maxval, z_cutoff_arg, outlier_status, fo_pc>>

\* line 762-766: the loop is left
ReturnCutoff ==
    /\ fo_pc = "search"
    /\ ~SearchContinues(indices, added_values, z_cutoff)
    /\ outlier_status' = StripSentinels(MaskOf(indices, Len(np_values)), added_values)
    /\ fo_pc' = "returned"
    /\ UNCHANGED <<violin_vars, bar_vars, scatter_vars, plot_vars>>
    /\ UNCHANGED <<values, top_n, minval, maxval, z_cutoff_arg, z_cutoff, indices, n_decrements>>

(***************************************************************************)
(* Violin Dataset.create: the per-metric series reduction.                 *)
(*                                                                         *)
(* A cell of the table is an int, a non-finite float (NaN, which           *)
(* np.isfinite treats like +-Inf) or a string.                             *)
(***************************************************************************)
MaxSamples == 3      \* rows (samples) of the DataTable
MaxCell == 1         \* numeric cells and declared bounds (dmin, dmax) are in 0..MaxCell
MaxThreshold == 2    \* the two violin_min_threshold_* settings are in 0..MaxThreshold
MaxCap == 2          \* violin_downsample_after is None or in 1..MaxCap

IntCell(n) == [t |-> "int", v |-> n]
NaNCell == [t |-> "nan", v |-> 0]
StrCell == [t |-> "str", v |-> 0]
CellValues == {IntCell(n) : n \in 0..MaxCell} \cup {NaNCell, StrCell}

IsNumber(x) == x.t \in {"int", "nan"}        \* isinstance(v, (int, float))
IsFinite(x) == x.t = "int"                   \* np.isfinite(v)

\* a column of the DataTable: the cell of each row (None: the row has no such key),
\* and the column's declared bounds, visibility and colour (here: no colour)
Columns ==
    [cells : [1..MaxSamples -> Optional(CellValues)],
     dmin : Optional(0..MaxCell), dmax : Optional(0..MaxCell), hidden : BOOLEAN,
     color : {None}]

Configs ==
    [violin_min_threshold_no_points : 0..MaxThreshold,
     violin_min_threshold_outliers : 0..MaxThreshold,
     violin_downsample_after : Optional(1..MaxCap)]

\* ---- dicts as sequences of [s, v] ----
Keys(d) == {d[i].s : i \in 1..Len(d)}

RECURSIVE SortedSeq(_)
SortedSeq(S) ==
    IF S = {} THEN << >>
    ELSE LET m == CHOOSE x \in S : \A y \in S : x <= y
         IN  <<m>> \o SortedSeq(S \ {m})

\* values_and_headers_from_dt, lines 79-91: the rows that hold the metric, in row order
RECURSIVE RowsFrom(_, _)
RowsFrom(cells, i) ==
    IF i > Len(cells) THEN << >>
    ELSE (IF cells[i] = None THEN << >> ELSE <<[s |-> i, v |-> cells[i][1]]>>)
         \o RowsFrom(cells, i + 1)

ValueBySample(col) == RowsFrom(col.cells, 1)

\* values_and_headers_from_dt, lines 96-99: "If all colors are the same, remove them";
\* t_col is the column object of the DataTable
ColoursRemoved(t) ==
    IF Cardinality({t[m].color : m \in 1..Len(t)}) = 1
    THEN [m \in 1..Len(t) |-> [t[m] EXCEPT !.color = None]]
    ELSE t

\* lines 138-145: non-finite values are dropped from an all-numeric series only
AllNumeric(d) == \A i \in 1..Len(d) : IsNumber(d[i].v)
IsFiniteEntry(r) == IsFinite(r.v)
Pruned(d) == IF AllNumeric(d) THEN SelectSeq(d, IsFiniteEntry) ELSE d

\* ---- lines 150-164: the axis range, in units of 1/(200*200) ----
PadDen == 200        \* 0.005 = 1/200
RangeUnit == PadDen * PadDen
\* a mutant: the 0:0 range is not remapped
XAxisOfKeepsZeroRange(col, show_points) ==
    LET lo0 == col.dmin[1] * RangeUnit
        hi0 == col.dmax[1] * RangeUnit
        lo1 == lo0 - (hi0 - lo0) \div PadDen
        hi1 == hi0 + (hi0 - lo1) \div PadDen
    IN  [tickvals |-> None,
         range |-> IF col.dmin # None /\ col.dmax # None
                   THEN (IF show_points THEN Some(<<lo1, hi1>>) ELSE Some(<<lo0, hi0>>))
                   ELSE None]

\* a mutant: the range is set as soon as one bound is declared, a missing bound read as 0
XAxisOfEitherBound(col, show_points) ==
    LET zero == col.dmin = Some(0) /\ col.dmax = Some(0)
        xmin == IF col.dmin = None THEN Some(0) ELSE col.dmin
        xmax == IF zero THEN Some(1) ELSE IF col.dmax = None THEN Some(0) ELSE col.dmax
        lo0  == xmin[1] * RangeUnit
        hi0  == xmax[1] * RangeUnit
        lo1  == lo0 - (hi0 - lo0) \div PadDen
        hi1  == hi0 + (hi0 - lo1) \div PadDen
    IN  [tickvals |-> IF zero THEN Some(<<0>>) ELSE None,
         range |-> IF col.dmin # None \/ col.dmax # None
                   THEN (IF show_points THEN Some(<<lo1, hi1>>) ELSE Some(<<lo0, hi0>>))
                   ELSE None]

XAxisOf(col, show_points) ==
    LET zero == col.dmin = Some(0) /\ col.dmax = Some(0)     \* xmin == xmax == 0
        xmin == col.dmin
        xmax == IF zero THEN Some(1) ELSE col.dmax
        lo0  == xmin[1] * RangeUnit
        hi0  == xmax[1] * RangeUnit
        lo1  == lo0 - (hi0 - lo0) \div PadDen                \* xmin -= (xmax - xmin) * 0.005
        hi1  == hi0 + (hi0 - lo1) \div PadDen                \* xmax += (xmax - xmin) * 0.005
    IN  [tickvals |-> IF zero THEN Some(<<0>>) ELSE None,
         range |-> IF xmin # None /\ xmax # None
                   THEN (IF show_points THEN Some(<<lo1, hi1>>) ELSE Some(<<lo0, hi0>>))
                   ELSE None]

NoXAxis == [tickvals |-> None, range |-> None]

\* ---- lines 166-190: the point layer ----
IntsOf(d) == [i \in 1..Len(d) |-> d[i].v.v]

\* a mutant: find_outliers is called without the column's dmin and dmax
OutliersOfNoSentinels(d, col) ==
    LET mask == FindOutliersDefault(IntsOf(d), None, None)
        IsOutlier(i) == mask[i]
        idx == SelectSeq([i \in 1..Len(d) |-> i], IsOutlier)
    IN  [j \in 1..Len(idx) |-> d[idx[j]]]

OutliersOf(d, col) ==
    LET mask == FindOutliersDefault(IntsOf(d), col.dmin, col.dmax)
        Flagged(i) == mask[i]
        idx == SelectSeq([i \in 1..Len(d) |-> i], Flagged)
    IN  [j \in 1..Len(idx) |-> d[idx[j]]]

\* a mutant: the outliers branch is taken whatever violin_min_threshold_outliers is
AlwaysOnlyOutliers(n, cfg) == TRUE

\* line 148
ShowOnlyOutliers(n, cfg) == n > cfg.violin_min_threshold_outliers

\* a mutant: points are shown whatever the size of the series
ShowPointsAlways(n, cfg) == TRUE

\* line 147
ShowPoints(n, cfg) == n <= cfg.violin_min_threshold_no_points

CallsFindOutliers(d, cfg) ==
    ShowPoints(Len(d), cfg) /\ ShowOnlyOutliers(Len(d), cfg) /\ AllNumeric(d)

ScatterValueBySample(d, col, cfg) ==
    IF CallsFindOutliers(d, cfg) THEN OutliersOf(d, col) ELSE << >>

\* ---- lines 194-206: sort and downsample ----
\* np.argsort(values): numbers by value; a series holding a string becomes an array of
\* strings, ordered as text ("0" < "1" < ... < "nan" < "x...")
SortKey(x) == IF x.t = "int" THEN x.v ELSE IF x.t = "nan" THEN 100 ELSE 101

IndexPermutations(n) == {p \in [1..n -> 1..n] : \A i, j \in 1..n : i # j => p[i] # p[j]}

\* every order np.argsort may return: its default sort is not stable
ArgSorts(d) ==
    {p \in IndexPermutations(Len(d)) :
        \A i, j \in 1..Len(d) : i < j => SortKey(d[p[i]].v) <= SortKey(d[p[j]].v)}

CeilDiv(n, m) == (n + m - 1) \div m          \* int(math.ceil(n / m))

\* a mutant: a stride one too short
ShortStride(n, cap) == IF CeilDiv(n, cap) > 1 THEN CeilDiv(n, cap) - 1 ELSE 1

Stride(n, cap) == CeilDiv(n, cap)

\* indices[::k]: positions 1, 1+k, 1+2k, ... of a sequence of length n
Strided(n, k) == [j \in 1..CeilDiv(n, k) |-> 1 + (j - 1) * k]

\* a mutant: a series exactly at the cap is downsampled too
NeedsDownsamplingAtCap(d, cfg) ==
    /\ cfg.violin_downsample_after # None
    /\ Len(d) >= cfg.violin_downsample_after[1]

\* line 197
NeedsDownsampling(d, cfg) ==
    /\ cfg.violin_downsample_after # None
    /\ Len(d) > cfg.violin_downsample_after[1]

Downsampled(d, cap, p) ==
    LET pos == Strided(Len(d), Stride(Len(d), cap))
    IN  [j \in 1..Len(pos) |-> d[p[pos[j]]]]

ViolinValueBySample(d, cfg, p) ==
    IF NeedsDownsampling(d, cfg)
    THEN Downsampled(d, cfg.violin_downsample_after[1], p)
    ELSE d

(***************************************************************************)
(* Violin Dataset.create, lines 104-234, and create_figure, lines 266-375. *)
(***************************************************************************)
Metrics == 1..Len(dt)

\* the series of metric m as the loop body sees it after line 145
Series(m) == Pruned(ValueBySample(dt[m]))

\* a mutant: only a metric without values is skipped, not one whose values are all NaN
ExcludedOnlyWhenEmpty(m) == ValueBySample(dt[m]) = << >>

\* lines 134-136 and 143-145: the two "continue"
Excluded(m) == ValueBySample(dt[m]) = << >> \/ Series(m) = << >>

\* lines 118-131, 147-164: the ViolinColumn of metric m
HeaderOf(m) ==
    LET col == dt[m]
        d   == Series(m)
        sp  == IF Excluded(m) THEN TRUE ELSE ShowPoints(Len(d), config)
        so  == IF Excluded(m) THEN FALSE ELSE ShowOnlyOutliers(Len(d), config)
    IN  [dmin |-> col.dmin, dmax |-> col.dmax, hidden |-> col.hidden,
         color |-> ColoursRemoved(dt)[m].color,
         show_points |-> sp, show_only_outliers |-> so,
         xaxis |-> IF ~Excluded(m) /\ AllNumeric(d) THEN XAxisOf(col, sp) ELSE NoXAxis]

ViolinChoices(m) ==
    IF NeedsDownsampling(Series(m), config)
    THEN {Downsampled(Series(m), config.violin_downsample_after[1], p) : p \in ArgSorts(Series(m))}
    ELSE {Series(m)}

AllSamplesOf(included, violin, scatter) ==
    UNION {Keys(violin[m]) \cup Keys(scatter[m]) : m \in included}

\* the datasets Dataset.create may build from dt: one for every order np.argsort may
\* return for the series it downsamples
CreatedDatasets ==
    LET included == {m \in Metrics : ~Excluded(m)}
        scatter  == [m \in included |-> ScatterValueBySample(Series(m), dt[m], config)]
        violins  == {f \in [included -> UNION {ViolinChoices(m) : m \in included}] :
                        \A m \in included : f[m] \in ViolinChoices(m)}
    IN  {[metrics |-> SortedSeq(included),
          header_by_metric |-> [m \in Metrics |-> HeaderOf(m)],
          violin_value_by_sample_by_metric |-> violin,
          scatter_value_by_sample_by_metric |-> scatter,
          all_samples |-> SortedSeq(AllSamplesOf(included, violin, scatter)),
          is_downsampled |->
              /\ config.violin_downsample_after # None
              /\ Cardinality(AllSamplesOf(included, violin, scatter))
                    > config.violin_downsample_after[1],
          find_outliers_calls |->
              {m \in included : CallsFindOutliers(Series(m), config)}] : violin \in violins}

Create ==
    /\ v_pc = "new"
    /\ ds' \in CreatedDatasets
    /\ dt' = ColoursRemoved(dt)
    /\ v_pc' = "created"
    /\ UNCHANGED <<config, fig, prompt>>
    /\ UNCHANGED <<fo_vars, bar_vars, scatter_vars, plot_vars>>

NoFigure == [violins |-> << >>, points |-> << >>, add_scatter |-> FALSE]

\* create_figure(layout, add_scatter): the traces added per visible metric
CreateFigure ==
    /\ v_pc \in {"created", "drawn"}
    /\ \E add_scatter \in BOOLEAN :
          LET shown == {m \in Keys([i \in 1..Len(ds.metrics) |-> [s |-> ds.metrics[i], v |-> 0]]) :
                            ~ds.header_by_metric[m].hidden}
          IN  fig' = [violins |-> [m \in shown |-> ds.violin_value_by_sample_by_metric[m]],
                      points |-> [m \in shown |->
                          IF add_scatter /\ ds.header_by_metric[m].show_points
                          THEN (IF ds.header_by_metric[m].show_only_outliers
                                THEN ds.scatter_value_by_sample_by_metric[m]
                                ELSE ds.violin_value_by_sample_by_metric[m])
                          ELSE << >>],
                      add_scatter |-> add_scatter]
    /\ v_pc' = "drawn"
    /\ UNCHANGED <<config, dt, ds, prompt>>
    /\ UNCHANGED <<fo_vars, bar_vars, scatter_vars, plot_vars>>

NoPrompt == [raised |-> "no call", rows |-> << >>]
NoPlotInput == [no_violin |-> FALSE, show_table_by_default |-> FALSE, max_table_rows |-> 0]
NoPlot == [no_violin |-> FALSE, show_table |-> FALSE, show_table_by_default |-> FALSE, n_samples |-> 0]
NoHtml == [violin |-> FALSE, table |-> FALSE, table_hidden |-> FALSE, violin_hidden |-> FALSE, warning |-> FALSE]

NoConfig ==
    [violin_min_threshold_no_points |-> 0, violin_min_threshold_outliers |-> 0,
     violin_downsample_after |-> None]

NoDataset ==
    [metrics |-> << >>, header_by_metric |-> << >>,
     violin_value_by_sample_by_metric |-> << >>,
     scatter_value_by_sample_by_metric |-> << >>,
     all_samples |-> << >>, is_downsampled |-> FALSE, find_outliers_calls |-> {}]

(***************************************************************************)
(* Violin Dataset.format_dataset_for_ai_prompt, lines 387-427.             *)
(***************************************************************************)
\* the samples of metric m in the two value maps
HoldsSample(m, s) ==
    \/ s \in Keys(ds.violin_value_by_sample_by_metric[m])
    \/ s \in Keys(ds.scatter_value_by_sample_by_metric[m])

\* lines 409-413: all(...) walks the headers in order and stops at the first one that
\* holds the sample; self.violin_value_by_sample_by_metric[col.rid] raises KeyError
\* for a header whose metric has no entry in the map
ReadsAbsentKey(s) ==
    \E m \in 1..Len(dt) :
        /\ m \notin DOMAIN ds.violin_value_by_sample_by_metric
        /\ \A b \in 1..(m - 1) :
              /\ b \in DOMAIN ds.violin_value_by_sample_by_metric
              /\ ~HoldsSample(b, s)

ValueIn(d, s) == d[CHOOSE i \in 1..Len(d) : d[i].s = s].v

\* lines 417-420: violin.get(rid, {}).get(sample, scatter.get(rid, {}).get(sample, ""))
PromptCell(m, s) ==
    IF m \notin DOMAIN ds.violin_value_by_sample_by_metric THEN None
    ELSE IF s \in Keys(ds.violin_value_by_sample_by_metric[m])
         THEN Some(ValueIn(ds.violin_value_by_sample_by_metric[m], s))
    ELSE IF s \in Keys(ds.scatter_value_by_sample_by_metric[m])
         THEN Some(ValueIn(ds.scatter_value_by_sample_by_metric[m], s))
    ELSE None

\* lines 408-425: one row per sample that some header holds
PromptRows ==
    LET IsHeld(s) == \E m \in DOMAIN ds.violin_value_by_sample_by_metric : HoldsSample(m, s)
        held == SelectSeq(ds.all_samples, IsHeld)
    IN  [j \in 1..Len(held) |->
            [sample |-> held[j], cells |-> [m \in 1..Len(dt) |-> PromptCell(m, held[j])]]]

FormatDatasetForAiPrompt ==
    /\ v_pc \in {"created", "drawn"}
    /\ prompt' = IF \E j \in 1..Len(ds.all_samples) : ReadsAbsentKey(ds.all_samples[j])
                 THEN [raised |-> "KeyError", rows |-> << >>]
                 ELSE [raised |-> "none", rows |-> PromptRows]
    /\ UNCHANGED <<config, dt, ds, fig, v_pc>>
    /\ UNCHANGED <<fo_vars, bar_vars, scatter_vars, plot_vars>>

(***************************************************************************)
(* ViolinPlot.create, lines 447-530, and add_to_report, lines 649-703.     *)
(***************************************************************************)
MaxTableRows == 2    \* config.max_table_rows is in 0..MaxTableRows

PlotInputs ==
    [no_violin : BOOLEAN, show_table_by_default : BOOLEAN, max_table_rows : 0..MaxTableRows]

\* lines 453-458: the samples of the table are the rows that hold a cell in some column
SamplesPerDataset(t) == {i \in 1..MaxSamples : \E m \in 1..Len(t) : t[m].cells[i] # None}

\* a mutant: the table is dropped at the ceiling already
ShowTableBelowCeiling(max_n_samples, in) ==
    ~(max_n_samples >= in.max_table_rows /\ ~in.no_violin)

\* lines 513-516
ShowTable(max_n_samples, in) ==
    ~(max_n_samples > in.max_table_rows /\ ~in.no_violin)

\* ViolinPlot.create on one DataTable
ViolinPlotCreate ==
    /\ vp_pc = "new"
    /\ ds' \in CreatedDatasets
    /\ dt' = ColoursRemoved(dt)
    /\ v_pc' = "created"
    /\ vp' = [no_violin |-> vp_in.no_violin,
              show_table |-> ShowTable(Cardinality(SamplesPerDataset(dt)), vp_in),
              show_table_by_default |-> vp_in.show_table_by_default \/ vp_in.no_violin,
              n_samples |-> Cardinality(SamplesPerDataset(dt))]
    /\ vp_pc' = "created"
    /\ UNCHANGED <<config, fig, prompt, vp_in, vp_html>>
    /\ UNCHANGED <<fo_vars, bar_vars, scatter_vars>>

\* add_to_report: the violin alone, or the violin and the table with one of them hidden
AddToReport ==
    /\ vp_pc \in {"created", "reported"}
    /\ vp_html' = [violin |-> TRUE,
                   table |-> vp.show_table,
                   table_hidden |-> vp.show_table /\ ~vp.show_table_by_default,
                   violin_hidden |-> vp.show_table /\ vp.show_table_by_default,
                   warning |-> ~vp.show_table]
    /\ vp_pc' = "reported"
    /\ UNCHANGED <<vp_in, vp>>
    /\ UNCHANGED <<fo_vars, violin_vars, bar_vars, scatter_vars>>

(***************************************************************************)
(* BarPlot.create (plots/plotly/bar.py).                                   *)
(*                                                                         *)
(* A bar value is a Python number: the record [t, n, d] is the rational    *)
(* n/d (d > 0) when t = "num" and NaN when t = "nan".  Input data are      *)
(* integers or NaN; percentages are the exact quotients val * 100 / sum    *)
(* (the double the code computes is that quotient rounded).                *)
(***************************************************************************)
MaxBarSamples == 2   \* samples of the bar dataset, and longest data list of a category
MaxBarVal == 3       \* data values are NaN or in -1..MaxBarVal
MaxBarCats == 2      \* categories of the dataset

Num(n, d) == [t |-> "num", n |-> n, d |-> d]
NaN == [t |-> "nan", n |-> 0, d |-> 1]
IsNan(x) == x.t = "nan"                                  \* math.isnan(x)
Less(a, b) == ~IsNan(a) /\ ~IsNan(b) /\ a.n * b.d < b.n * a.d      \* a < b
SameNumber(a, b) == ~IsNan(a) /\ ~IsNan(b) /\ a.n * b.d = b.n * a.d \* a == b
Plus(a, b) == IF IsNan(a) \/ IsNan(b) THEN NaN ELSE Num(a.n * b.d + b.n * a.d, a.d * b.d)
AbsInt(n) == IF n < 0 THEN 0 - n ELSE n
Zero == Num(0, 1)

BarValues == {Num(n, 1) : n \in (0 - 1)..MaxBarVal} \cup {NaN}

\* Python's max(seq) / min(seq): keep the first item, replace it when a later one
\* compares greater / less (a comparison with NaN is false)
RECURSIVE PyMaxFrom(_, _)
PyMaxFrom(best, rest) ==
    IF rest = << >> THEN best
    ELSE PyMaxFrom(IF Less(best, Head(rest)) THEN Head(rest) ELSE best, Tail(rest))
PyMax(seq) == PyMaxFrom(Head(seq), Tail(seq))

RECURSIVE PyMinFrom(_, _)
PyMinFrom(best, rest) ==
    IF rest = << >> THEN best
    ELSE PyMinFrom(IF Less(Head(rest), best) THEN Head(rest) ELSE best, Tail(rest))
PyMin(seq) == PyMinFrom(Head(seq), Tail(seq))

RECURSIVE PySum(_)
PySum(seq) == IF seq = << >> THEN Zero ELSE Plus(Head(seq), PySum(Tail(seq)))

\* a mutant: the order is kept
NotReversed(seq) == seq

\* list(reversed(seq))
Reversed(seq) == [i \in 1..Len(seq) |-> seq[Len(seq) + 1 - i]]

\* ---- Dataset.create, bar.py lines 91-131 ----
\* an input category: its name (None: the dict has no 'name' key), its data and its
\* data_pct (None: the dict has no 'data_pct' key)
BarCatsOf(Vals, Pcts) ==
    [name : Optional(1..MaxBarCats),
     data : UNION {[1..n -> Vals] : n \in 1..MaxBarSamples},
     data_pct : Pcts]

BarCats == BarCatsOf(BarValues, {None})

MissingName(cats) == \E c \in 1..Len(cats) : cats[c].name = None

\* lines 115-121: the two asserts of one category; an empty data_pct is not checked
CatLengthMismatch(cat, n_samples) ==
    \/ Len(cat.data) # n_samples
    \/ /\ cat.data_pct # None
       /\ cat.data_pct[1] # << >>
       /\ Len(cat.data_pct[1]) # n_samples

\* a mutant: the length of a supplied data_pct is not checked
DataLengthMismatch(cats, n_samples) == \E c \in 1..Len(cats) : Len(cats[c].data) # n_samples

LengthMismatch(cats, n_samples) == \E c \in 1..Len(cats) : CatLengthMismatch(cats[c], n_samples)

\* lines 99-121: the loop stops at the first category that lacks a name (ValueError,
\* line 101) or fails an assert (line 119 or 121); the name is tested first
FirstMalformed(cats, n_samples) ==
    CHOOSE c \in 1..Len(cats) :
        /\ cats[c].name = None \/ CatLengthMismatch(cats[c], n_samples)
        /\ \A b \in 1..(c - 1) : cats[b].name # None /\ ~CatLengthMismatch(cats[b], n_samples)

\* BarPlot.create, lines 216-217
ListsMismatch(in) == in.n_cats_lists # in.n_samples_lists

ErrorRaised(in) ==
    IF ListsMismatch(in) THEN "ValueError"
    ELSE IF in.cats[FirstMalformed(in.cats, in.n_samples)].name = None THEN "ValueError"
    ELSE "AssertionError"

FixedCats(cats) ==
    [c \in 1..Len(cats) |->
        [name |-> cats[c].name[1], data |-> Reversed(cats[c].data),
         data_pct |-> IF cats[c].data_pct = None THEN << >> ELSE Reversed(cats[c].data_pct[1])]]

\* ---- BarPlot.create, lines 234-239: the barmode ----
Barmode(stacking) ==
    IF stacking = "None" THEN "group"
    ELSE IF stacking = "normal" THEN "relative"
    ELSE stacking

\* ---- lines 304-320: the extrema of the value axis ----
Column(cats, i) == [c \in 1..Len(cats) |-> cats[c].data[i]]
PositivePart(col) == [c \in 1..Len(col) |-> IF Less(Zero, col[c]) THEN col[c] ELSE Zero]
NegativePart(col) == [c \in 1..Len(col) |-> IF Less(col[c], Zero) THEN col[c] ELSE Zero]

XMaxCnt(cats, n, barmode) ==
    IF barmode = "group"
    THEN PyMax([i \in 1..n |-> PyMax(Column(cats, i))])
    ELSE PyMax([i \in 1..n |-> PySum(PositivePart(Column(cats, i)))])

XMinCnt(cats, n, barmode) ==
    IF barmode = "group"
    THEN PyMin([i \in 1..n |-> PyMin(Column(cats, i))])
    ELSE PyMin([i \in 1..n |-> PySum(NegativePart(Column(cats, i)))])

MinAllowed(xmin_cnt) == IF Less(Zero, xmin_cnt) THEN Zero ELSE xmin_cnt

\* ---- lines 358-362: pad short data with zeroes ----
Padded(cats, n) ==
    [c \in 1..Len(cats) |->
        [cats[c] EXCEPT !.data =
            IF Len(@) < n THEN @ \o [j \in 1..(n - Len(@)) |-> Zero] ELSE @]]

\* ---- lines 364-383: the percentage pass ----
\* a mutant: the totals add the signed values
SignedTerm(x) == IF IsNan(x) THEN 0 ELSE x.n

\* if not math.isnan(val): sums[sample_idx] += abs(val)
AbsTerm(x) == IF IsNan(x) THEN 0 ELSE AbsInt(x.n)

RECURSIVE SumTerms(_)
SumTerms(col) == IF col = << >> THEN 0 ELSE AbsTerm(Head(col)) + SumTerms(Tail(col))

Sums(cats) == [i \in 1..Len(cats[1].data) |-> SumTerms(Column(cats, i))]

\* a mutant: no guard against a zero total
PercentUnguarded(val, sum_for_sample) ==
    IF IsNan(val) \/ sum_for_sample = 0 THEN NaN ELSE Num(val.n * 100, sum_for_sample)

\* float(val + 0.0) / float(sum_for_sample) * 100.0, or 0 for a zero total
Percent(val, sum_for_sample) ==
    IF sum_for_sample = 0 THEN Zero
    ELSE IF IsNan(val) THEN NaN
    ELSE Num(val.n * 100, sum_for_sample)

WithPercentages(cats) ==
    [c \in 1..Len(cats) |->
        [cats[c] EXCEPT !.data_pct =
            [i \in 1..Len(cats[c].data) |-> Percent(cats[c].data[i], Sums(cats)[i])]]]

\* lines 385-394
PctColumn(cats, i) == [c \in 1..Len(cats) |-> cats[c].data_pct[i]]
PctRangeMin(cats, n, barmode) ==
    IF barmode = "group"
    THEN PyMin([i \in 1..n |-> PyMin(PctColumn(cats, i))])
    ELSE PyMin([i \in 1..n |-> PySum(NegativePart(PctColumn(cats, i)))])

\* ---- lines 396-401: dataset.cats.sort(key=lambda cat: sum(cat.data)) ----
\* list.sort is stable: an insertion sort on the keys, with Python's "<"
RECURSIVE InsertCat(_, _)
InsertCat(sorted, cat) ==
    IF sorted = << >> THEN <<cat>>
    ELSE IF Less(PySum(cat.data), PySum(sorted[Len(sorted)].data))
         THEN InsertCat(SubSeq(sorted, 1, Len(sorted) - 1), cat) \o <<sorted[Len(sorted)]>>
         ELSE sorted \o <<cat>>

RECURSIVE SortedCats(_)
SortedCats(cats) ==
    IF cats = << >> THEN << >>
    ELSE InsertCat(SortedCats(SubSeq(cats, 1, Len(cats) - 1)), cats[Len(cats)])

Stackings == {"None", "group", "normal", "relative", "overlay"}

\* BarPlot.create raises: the numbers of lists differ (line 217), or Dataset.create
\* meets a category without 'name' (line 101) or fails an assert on the lengths (lines
\* 119, 121)
BarCreateRaises ==
    /\ bar_pc = "new"
    /\ \/ ListsMismatch(bar_in)
       \/ MissingName(bar_in.cats)
       \/ LengthMismatch(bar_in.cats, bar_in.n_samples)
    /\ bar_pc' = ErrorRaised(bar_in)
    /\ UNCHANGED <<bar_in, bar_model, bar_fig>>
    /\ UNCHANGED <<fo_vars, violin_vars, scatter_vars, plot_vars>>

\* BarPlot.create returns the plot
BarCreate ==
    /\ bar_pc = "new"
    /\ ~ListsMismatch(bar_in)
    /\ ~MissingName(bar_in.cats)
    /\ ~LengthMismatch(bar_in.cats, bar_in.n_samples)
    /\ LET n        == bar_in.n_samples
           barmode  == Barmode(bar_in.stacking)
           cats0    == FixedCats(bar_in.cats)
           cats1    == Padded(cats0, n)
           cats2    == IF bar_in.add_pct_tab THEN WithPercentages(cats1) ELSE cats1
           cats3    == IF bar_in.add_log_tab THEN SortedCats(cats2) ELSE cats2
       IN  bar_model' =
              [cats |-> cats3,
               samples |-> Reversed([i \in 1..n |-> i]),
               barmode |-> barmode,
               xmax_cnt |-> XMaxCnt(cats0, n, barmode),
               xmin_cnt |-> XMinCnt(cats0, n, barmode),
               minallowed |-> MinAllowed(XMinCnt(cats0, n, barmode)),
               pct_range_min |-> IF bar_in.add_pct_tab
                                 THEN Some(PctRangeMin(cats2, n, barmode)) ELSE None,
               traceorder_reversed |-> bar_in.add_log_tab,
               n_datasets |-> bar_in.n_cats_lists]
    /\ bar_pc' = "ready"
    /\ UNCHANGED <<bar_in, bar_fig>>
    /\ UNCHANGED <<fo_vars, violin_vars, scatter_vars, plot_vars>>

\* bar Dataset.create_figure, lines 133-160: one trace per category
BarCreateFigure ==
    /\ bar_pc = "ready"
    /\ \E is_pct \in BOOLEAN :
          bar_fig' = [c \in 1..Len(bar_model.cats) |->
                         [x |-> IF is_pct THEN bar_model.cats[c].data_pct
                                ELSE bar_model.cats[c].data,
                          y |-> bar_model.samples,
                          name |-> bar_model.cats[c].name]]
    /\ UNCHANGED <<bar_in, bar_model, bar_pc>>
    /\ UNCHANGED <<fo_vars, violin_vars, scatter_vars, plot_vars>>

(***************************************************************************)
(* Scatter Dataset.create_figure (plots/plotly/scatter.py, lines 75-188).  *)
(*                                                                         *)
(* The points of the dataset are kept as runs: the record                  *)
(*   [x, y, n, name, annotation, annotate, color, marker_size,             *)
(*    marker_line_width, group, hide_in_legend]                            *)
(* stands for n consecutive points with these keys.  x and y are cells     *)
(* (IntCell, StrCell); annotation says that the key "annotation" is set;   *)
(* annotate is FALSE for a point with "annotate": False.  A text is the    *)
(* sequence of its character codes.                                        *)
(***************************************************************************)
MAX_ANNOTATIONS == 10     \* line 87
MAX_WIDTH == 60           \* line 153
FirstThreshold == 10      \* line 111: threshold = 1.0, in tenths
LastThreshold == 60       \* line 112: while threshold <= 6.0, in tenths

CommaSpace == <<44, 32>>          \* ", "
ColonSpace == <<58, 32>>          \* ": "
Ellipsis == <<46, 46, 46>>        \* "..."

\* a mutant: the threshold grows by 0.1
AddPoint1(c) == RoundToDouble(c.k + 1, c.e)

\* threshold += 0.2
AddPoint2(c) == RoundToDouble(c.k + 2, c.e + 1)

\* threshold <= 6.0
AtMostLast(c) == c.k < LastThreshold \/ (c.k = LastThreshold /\ c.e <= 0)

\* line 88 and line 124: the points that carry an annotation
NAnnotated(pts) == Sum([i \in 1..Len(pts) |-> IF pts[i].annotation THEN pts[i].n ELSE 0])

\* line 90: the points with x.get("annotate", True) is not False
IsAnnotatable(el) == el.annotate
Annotatable(pts) == SelectSeq(pts, IsAnnotatable)

\* lines 91-95: np.array of numbers has a numeric dtype, one holding a string has not
XAreNumeric(pts) == \A i \in 1..Len(pts) : pts[i].x.t = "int"
YAreNumeric(pts) == \A i \in 1..Len(pts) : pts[i].y.t = "int"

\* the statistics of one axis over the runs: N, S and Q as for find_outliers
NPoints(pts) == Sum([i \in 1..Len(pts) |-> pts[i].n])
XSum(pts) == Sum([i \in 1..Len(pts) |-> pts[i].n * pts[i].x.v])
YSum(pts) == Sum([i \in 1..Len(pts) |-> pts[i].n * pts[i].y.v])
XSumSq(pts) == Sum([i \in 1..Len(pts) |-> pts[i].n * pts[i].x.v * pts[i].x.v])
YSumSq(pts) == Sum([i \in 1..Len(pts) |-> pts[i].n * pts[i].y.v * pts[i].y.v])
XVarN(pts) == NPoints(pts) * XSumSq(pts) - XSum(pts) * XSum(pts)
YVarN(pts) == NPoints(pts) * YSumSq(pts) - YSum(pts) * YSum(pts)
XDev(pts, i) == NPoints(pts) * pts[i].x.v - XSum(pts)
YDev(pts, i) == NPoints(pts) * pts[i].y.v - YSum(pts)

\* z > threshold for a z-score with z^2 = dev^2 / varn (zeros when the std is 0)
ScoreAbove(dev, varn, c) ==
    LET a == 100 * dev * dev
        b == c.k * c.k * varn
    IN  IF varn = 0 THEN FALSE
        ELSE IF a # b THEN a > b ELSE c.e < 0

\* lines 113 and 122: x_z_score > threshold or y_z_score > threshold
IsOutlier(pts, i, c) ==
    \/ ScoreAbove(XDev(pts, i), XVarN(pts), c)
    \/ ScoreAbove(YDev(pts, i), YVarN(pts), c)

NOutliers(pts, c) == Sum([i \in 1..Len(pts) |-> IF IsOutlier(pts, i, c) THEN pts[i].n ELSE 0])

\* lines 111-118: the threshold the loop ends with
RECURSIVE FinalThreshold(_, _, _)
FinalThreshold(pts, n_annotated, c) ==
    IF ~AtMostLast(c) THEN c
    ELSE IF n_annotated + NOutliers(pts, c) <= MAX_ANNOTATIONS THEN c
    ELSE FinalThreshold(pts, n_annotated, AddPoint2(c))

\* lines 112-118: how many times the body of the while loop runs
RECURSIVE ThresholdsTried(_, _, _)
ThresholdsTried(pts, n_annotated, c) ==
    IF ~AtMostLast(c) THEN 0
    ELSE IF n_annotated + NOutliers(pts, c) <= MAX_ANNOTATIONS THEN 1
    ELSE 1 + ThresholdsTried(pts, n_annotated, AddPoint2(c))

\* lines 89-123: the annotatable runs that get point["annotation"] = point["name"]
NewlyAnnotated(all) ==
    LET pts == Annotatable(all)
        c   == FinalThreshold(pts, NAnnotated(all), Double(FirstThreshold))
    IN  IF NAnnotated(all) >= MAX_ANNOTATIONS THEN {}
        ELSE IF ~(XAreNumeric(pts) /\ YAreNumeric(pts)) THEN {}
        ELSE IF pts = << >> THEN {}
        ELSE IF XVarN(pts) = 0 /\ YVarN(pts) = 0
             THEN (IF NPoints(pts) = 1 THEN {pts[1]} ELSE {})
        ELSE {pts[i] : i \in {j \in 1..Len(pts) : IsOutlier(pts, j, c)}}

Annotated(all) ==
    [i \in 1..Len(all) |->
        IF all[i].annotate /\ all[i] \in NewlyAnnotated(all)
        THEN [all[i] EXCEPT !.annotation = TRUE]
        ELSE all[i]]

\* ---- lines 128-157: the legend ----
LegendKey(el) == <<el.color, el.marker_size, el.marker_line_width, el.group>>

NamesByLegendKey(pts, key) == {pts[i].name : i \in {j \in 1..Len(pts) : LegendKey(pts[j]) = key}}

\* a < b for two texts, as Python compares str
RECURSIVE TextLess(_, _)
TextLess(a, b) ==
    IF b = << >> THEN FALSE
    ELSE IF a = << >> THEN TRUE
    ELSE IF Head(a) # Head(b) THEN Head(a) < Head(b)
    ELSE TextLess(Tail(a), Tail(b))

\* sorted(names)
RECURSIVE SortedTexts(_)
SortedTexts(S) ==
    IF S = {} THEN << >>
    ELSE LET m == CHOOSE x \in S : \A y \in S \ {x} : TextLess(x, y)
         IN  <<m>> \o SortedTexts(S \ {m})

\* ", ".join(names)
RECURSIVE Joined(_)
Joined(names) ==
    IF names = << >> THEN << >>
    ELSE IF Len(names) = 1 THEN names[1]
    ELSE names[1] \o CommaSpace \o Joined(Tail(names))

\* lines 153-155
Cropped(label) ==
    IF Len(label) > MAX_WIDTH THEN SubSeq(label, 1, MAX_WIDTH) \o Ellipsis ELSE label

\* lines 149-155: the label of a legend key; "if group" is false for None and for ""
LabelOf(pts, key) ==
    LET label == Joined(SortedTexts(NamesByLegendKey(pts, key)))
        group == key[4]
    IN  Cropped(IF group # None /\ group[1] # << >>
                THEN group[1] \o ColonSpace \o label
                ELSE label)

\* lines 136-148: the points that bring a new key into the legend, in order
ShownFirst(pts, i) ==
    /\ ~pts[i].hide_in_legend
    /\ \A j \in 1..(i - 1) : pts[j].hide_in_legend \/ LegendKey(pts[j]) # LegendKey(pts[i])

LegendOf(pts) ==
    LET First(i) == ShownFirst(pts, i)
        firsts == SelectSeq([i \in 1..Len(pts) |-> i], First)
    IN  [j \in 1..Len(firsts) |->
            [key |-> LegendKey(pts[firsts[j]]), label |-> LabelOf(pts, LegendKey(pts[firsts[j]]))]]

NoScatterFigure == [legend |-> << >>, n_annotated |-> 0]

\* create_figure: annotates the points of the dataset and draws one trace per point
ScatterCreateFigure ==
    /\ sc_pc \in {"created", "drawn"}
    /\ sc_points' = Annotated(sc_points)
    /\ sc_fig' = [legend |-> LegendOf(sc_points), n_annotated |-> NAnnotated(Annotated(sc_points))]
    /\ sc_pc' = "drawn"
    /\ UNCHANGED <<fo_vars, violin_vars, bar_vars, plot_vars>>

(***************************************************************************)
(* The specifications.                                                     *)
(***************************************************************************)
\* the state before a call of find_outliers: its arguments
InitOutliers ==
    /\ values \in SeqsUpTo(0..MaxVal, MaxLen)
    /\ top_n \in Optional(0..MaxTopN)
    /\ minval \in Optional(0..MaxVal)
    /\ maxval \in Optional(0..MaxVal)
    /\ z_cutoff_arg \in {Double(10 * j) : j \in 1..MaxCutoff}
    /\ z_cutoff = z_cutoff_arg
    /\ indices = {}
    /\ outlier_status = << >>
    /\ n_decrements = 0
    /\ fo_pc = "call"
    /\ config = NoConfig /\ dt = << >> /\ ds = NoDataset /\ fig = NoFigure /\ v_pc = "idle" /\ prompt = NoPrompt
    /\ bar_in = << >> /\ bar_model = << >> /\ bar_fig = << >> /\ bar_pc = "idle"
    /\ sc_points = << >> /\ sc_fig = NoScatterFigure /\ sc_pc = "idle"
    /\ vp_in = NoPlotInput /\ vp = NoPlot /\ vp_html = NoHtml /\ vp_pc = "idle"

\* the state before violin Dataset.create: the configuration and the DataTable
InitViolin ==
    /\ config \in Configs
    /\ dt \in {<<c>> : c \in Columns}
    /\ ds = NoDataset
    /\ fig = NoFigure
    /\ v_pc = "new" /\ prompt = NoPrompt
    /\ values = << >> /\ top_n = None /\ minval = None /\ maxval = None
    /\ z_cutoff_arg = Double(DefaultCutoff) /\ z_cutoff = Double(DefaultCutoff)
    /\ indices = {} /\ outlier_status = << >> /\ n_decrements = 0 /\ fo_pc = "idle"
    /\ bar_in = << >> /\ bar_model = << >> /\ bar_fig = << >> /\ bar_pc = "idle"
    /\ sc_points = << >> /\ sc_fig = NoScatterFigure /\ sc_pc = "idle"
    /\ vp_in = NoPlotInput /\ vp = NoPlot /\ vp_html = NoHtml /\ vp_pc = "idle"

\* the state before violin Dataset.create on a table of MaxMetrics columns: the columns
\* declare no bounds and are visible, both thresholds are MaxThreshold
MaxMetrics == 2
TableColumns == {c \in Columns : c.dmin = None /\ c.dmax = None /\ ~c.hidden}
TableConfigs ==
    {c \in Configs : /\ c.violin_min_threshold_no_points = MaxThreshold
                     /\ c.violin_min_threshold_outliers = MaxThreshold}

InitViolinTable ==
    /\ config \in TableConfigs
    /\ dt \in [1..MaxMetrics -> TableColumns]
    /\ ds = NoDataset
    /\ fig = NoFigure
    /\ v_pc = "new" /\ prompt = NoPrompt
    /\ values = << >> /\ top_n = None /\ minval = None /\ maxval = None
    /\ z_cutoff_arg = Double(DefaultCutoff) /\ z_cutoff = Double(DefaultCutoff)
    /\ indices = {} /\ outlier_status = << >> /\ n_decrements = 0 /\ fo_pc = "idle"
    /\ bar_in = << >> /\ bar_model = << >> /\ bar_fig = << >> /\ bar_pc = "idle"
    /\ sc_points = << >> /\ sc_fig = NoScatterFigure /\ sc_pc = "idle"
    /\ vp_in = NoPlotInput /\ vp = NoPlot /\ vp_html = NoHtml /\ vp_pc = "idle"

\* the state before BarPlot.create: its arguments.  cats_lists and samples_lists hold
\* n_cats_lists and n_samples_lists lists; every tab has the categories cats and n_samples
\* samples.  Here: one tab, no category supplies data_pct
InitBar ==
    /\ bar_in \in [cats : [1..MaxBarCats -> BarCats],
                   n_samples : 1..MaxBarSamples,
                   stacking : Stackings,
                   add_pct_tab : BOOLEAN,
                   add_log_tab : BOOLEAN,
                   n_cats_lists : {1},
                   n_samples_lists : {1}]
    /\ \A c \in 1..MaxBarCats : bar_in.cats[c].name \in {None, Some(c)}
    /\ \A c \in 1..(MaxBarCats - 1) : bar_in.cats[c].name # None
    /\ bar_model = << >>
    /\ bar_fig = << >>
    /\ bar_pc = "new"
    /\ values = << >> /\ top_n = None /\ minval = None /\ maxval = None
    /\ z_cutoff_arg = Double(DefaultCutoff) /\ z_cutoff = Double(DefaultCutoff)
    /\ indices = {} /\ outlier_status = << >> /\ n_decrements = 0 /\ fo_pc = "idle"
    /\ config = NoConfig /\ dt = << >> /\ ds = NoDataset /\ fig = NoFigure /\ v_pc = "idle" /\ prompt = NoPrompt
    /\ sc_points = << >> /\ sc_fig = NoScatterFigure /\ sc_pc = "idle"
    /\ vp_in = NoPlotInput /\ vp = NoPlot /\ vp_html = NoHtml /\ vp_pc = "idle"

\* the state before BarPlot.create on input that may be malformed: up to MaxBarTabs lists
\* on either side, categories that may lack a name or supply a data_pct of any length
MaxBarTabs == 2
SuppliedPcts == {None} \cup {Some(p) : p \in SeqsUpTo({Num(50, 1)}, MaxBarSamples)}

InitBarLists ==
    /\ bar_in \in [cats : [1..MaxBarCats -> BarCatsOf({Zero, Num(1, 1)}, SuppliedPcts)],
                   n_samples : 1..MaxBarSamples,
                   stacking : {"group", "relative"},
                   add_pct_tab : BOOLEAN,
                   add_log_tab : {FALSE},
                   n_cats_lists : 1..MaxBarTabs,
                   n_samples_lists : 1..MaxBarTabs]
    /\ \A c \in 1..MaxBarCats : bar_in.cats[c].name \in {None, Some(c)}
    /\ bar_model = << >>
    /\ bar_fig = << >>
    /\ bar_pc = "new"
    /\ values = << >> /\ top_n = None /\ minval = None /\ maxval = None
    /\ z_cutoff_arg = Double(DefaultCutoff) /\ z_cutoff = Double(DefaultCutoff)
    /\ indices = {} /\ outlier_status = << >> /\ n_decrements = 0 /\ fo_pc = "idle"
    /\ config = NoConfig /\ dt = << >> /\ ds = NoDataset /\ fig = NoFigure /\ v_pc = "idle" /\ prompt = NoPrompt
    /\ sc_points = << >> /\ sc_fig = NoScatterFigure /\ sc_pc = "idle"
    /\ vp_in = NoPlotInput /\ vp = NoPlot /\ vp_html = NoHtml /\ vp_pc = "idle"

\* the state before BarPlot.create on one sample and MaxBarCats + 1 named categories
InitBarSort ==
    /\ bar_in \in {[cats |-> [c \in 1..(MaxBarCats + 1) |->
                                [name |-> Some(c), data |-> <<d[c]>>, data_pct |-> None]],
                     n_samples |-> 1,
                     stacking |-> st,
                     add_pct_tab |-> b[1],
                     add_log_tab |-> b[2],
                     n_cats_lists |-> 1,
                     n_samples_lists |-> 1] :
                        d \in [1..(MaxBarCats + 1) -> BarValues],
                        st \in Stackings, b \in BOOLEAN \X BOOLEAN}
    /\ bar_model = << >>
    /\ bar_fig = << >>
    /\ bar_pc = "new"
    /\ values = << >> /\ top_n = None /\ minval = None /\ maxval = None
    /\ z_cutoff_arg = Double(DefaultCutoff) /\ z_cutoff = Double(DefaultCutoff)
    /\ indices = {} /\ outlier_status = << >> /\ n_decrements = 0 /\ fo_pc = "idle"
    /\ config = NoConfig /\ dt = << >> /\ ds = NoDataset /\ fig = NoFigure /\ v_pc = "idle" /\ prompt = NoPrompt
    /\ sc_points = << >> /\ sc_fig = NoScatterFigure /\ sc_pc = "idle"
    /\ vp_in = NoPlotInput /\ vp = NoPlot /\ vp_html = NoHtml /\ vp_pc = "idle"

\* the state before BarPlot.create on well-formed input: MaxBarCats named categories
\* with one value per sample, each with or without a supplied data_pct
ReverseData(n) == [1..n -> {Zero, Num(1, 1)}]
ReversePcts(n) == {None} \cup {Some(p) : p \in [1..n -> {Num(25, 1), Num(75, 1)}]}

InitBarReverse ==
    /\ \E n \in 1..MaxBarSamples :
          bar_in \in {[cats |-> [c \in 1..MaxBarCats |->
                                    [name |-> Some(c), data |-> d[c], data_pct |-> q[c]]],
                        n_samples |-> n,
                        stacking |-> "group",
                        add_pct_tab |-> b[1],
                        add_log_tab |-> b[2],
                        n_cats_lists |-> 1,
                        n_samples_lists |-> 1] :
                           d \in [1..MaxBarCats -> ReverseData(n)],
                           q \in [1..MaxBarCats -> ReversePcts(n)],
                           b \in BOOLEAN \X BOOLEAN}
    /\ bar_model = << >>
    /\ bar_fig = << >>
    /\ bar_pc = "new"
    /\ values = << >> /\ top_n = None /\ minval = None /\ maxval = None
    /\ z_cutoff_arg = Double(DefaultCutoff) /\ z_cutoff = Double(DefaultCutoff)
    /\ indices = {} /\ outlier_status = << >> /\ n_decrements = 0 /\ fo_pc = "idle"
    /\ config = NoConfig /\ dt = << >> /\ ds = NoDataset /\ fig = NoFigure /\ v_pc = "idle" /\ prompt = NoPrompt
    /\ sc_points = << >> /\ sc_fig = NoScatterFigure /\ sc_pc = "idle"
    /\ vp_in = NoPlotInput /\ vp = NoPlot /\ vp_html = NoHtml /\ vp_pc = "idle"

\* the state before scatter create_figure: a dataset of up to MaxRuns runs of points
\* without colour, group or marker keys.  RunWeight bounds the number of points times the
\* largest coordinate, which keeps the integer statistics small
MaxRuns == 2
MaxRun == 400
MaxWeight == 800
RunSizes == {1, 2, MAX_ANNOTATIONS - 1, MAX_ANNOTATIONS + 1, MaxRun}
CoordPairs ==
    {<<IntCell(0), IntCell(0)>>, <<IntCell(0), IntCell(1)>>, <<IntCell(100), IntCell(100)>>,
     <<StrCell, IntCell(0)>>, <<IntCell(0), StrCell>>}
NameOfRun(i) == <<64 + i>>        \* "A", "B", ...

PlainRuns ==
    {[x |-> p[1], y |-> p[2], n |-> n, name |-> << >>,
      annotation |-> a[1], annotate |-> a[2],
      color |-> None, marker_size |-> None, marker_line_width |-> None, group |-> None,
      hide_in_legend |-> FALSE] : p \in CoordPairs, n \in RunSizes, a \in BOOLEAN \X BOOLEAN}

LargestCoord(pts) ==
    LET cs == {0} \cup {pts[i].x.v : i \in {j \in 1..Len(pts) : pts[j].x.t = "int"}}
                 \cup {pts[i].y.v : i \in {j \in 1..Len(pts) : pts[j].y.t = "int"}}
    IN  CHOOSE c \in cs : \A d \in cs : d <= c

RunWeight(pts) == NPoints(pts) * LargestCoord(pts)

InitScatter ==
    /\ \E runs \in SeqsUpTo(PlainRuns, MaxRuns) :
          /\ RunWeight(runs) <= MaxWeight
          /\ sc_points = [i \in 1..Len(runs) |-> [runs[i] EXCEPT !.name = NameOfRun(i)]]
    /\ sc_fig = NoScatterFigure
    /\ sc_pc = "created"
    /\ vp_in = NoPlotInput /\ vp = NoPlot /\ vp_html = NoHtml /\ vp_pc = "idle"
    /\ values = << >> /\ top_n = None /\ minval = None /\ maxval = None
    /\ z_cutoff_arg = Double(DefaultCutoff) /\ z_cutoff = Double(DefaultCutoff)
    /\ indices = {} /\ outlier_status = << >> /\ n_decrements = 0 /\ fo_pc = "idle"
    /\ config = NoConfig /\ dt = << >> /\ ds = NoDataset /\ fig = NoFigure /\ v_pc = "idle" /\ prompt = NoPrompt
    /\ bar_in = << >> /\ bar_model = << >> /\ bar_fig = << >> /\ bar_pc = "idle"

\* the state before scatter create_figure on up to MaxLegendPoints single points at the
\* origin, with names of NameLens characters, with or without a colour and a group
MaxLegendPoints == 2
NameLens == {1, MAX_WIDTH \div 2 - 1, MAX_WIDTH \div 2}
TextOf(ch, len) == [i \in 1..len |-> ch]
LegendNames == {TextOf(ch, len) : ch \in {97, 98}, len \in NameLens}
GroupNames == {None, Some(<< >>), Some(<<103>>)}        \* no group, "", "g"

LegendPoints ==
    [x : {IntCell(0)}, y : {IntCell(0)}, n : {1}, name : LegendNames,
     annotation : {FALSE}, annotate : {TRUE},
     color : Optional({1}), marker_size : {None}, marker_line_width : {None},
     group : GroupNames, hide_in_legend : BOOLEAN]

InitScatterLegend ==
    /\ sc_points \in SeqsUpTo(LegendPoints, MaxLegendPoints)
    /\ sc_fig = NoScatterFigure
    /\ sc_pc = "created"
    /\ vp_in = NoPlotInput /\ vp = NoPlot /\ vp_html = NoHtml /\ vp_pc = "idle"
    /\ values = << >> /\ top_n = None /\ minval = None /\ maxval = None
    /\ z_cutoff_arg = Double(DefaultCutoff) /\ z_cutoff = Double(DefaultCutoff)
    /\ indices = {} /\ outlier_status = << >> /\ n_decrements = 0 /\ fo_pc = "idle"
    /\ config = NoConfig /\ dt = << >> /\ ds = NoDataset /\ fig = NoFigure /\ v_pc = "idle" /\ prompt = NoPrompt
    /\ bar_in = << >> /\ bar_model = << >> /\ bar_fig = << >> /\ bar_pc = "idle"

\* the state before violin Dataset.create on a table of up to MaxMetrics visible columns
\* that hold the number 0 or nothing in each row and may have one of MaxColour colours
MaxColour == 2
ColouredColumns ==
    [cells : [1..MaxSamples -> {None, Some(IntCell(0))}],
     dmin : {None}, dmax : {None}, hidden : {FALSE},
     color : Optional(1..MaxColour)]

InitViolinColours ==
    /\ config \in TableConfigs
    /\ dt \in UNION {[1..n -> ColouredColumns] : n \in 1..MaxMetrics}
    /\ ds = NoDataset
    /\ fig = NoFigure
    /\ v_pc = "new" /\ prompt = NoPrompt
    /\ vp_in = NoPlotInput /\ vp = NoPlot /\ vp_html = NoHtml /\ vp_pc = "idle"
    /\ values = << >> /\ top_n = None /\ minval = None /\ maxval = None
    /\ z_cutoff_arg = Double(DefaultCutoff) /\ z_cutoff = Double(DefaultCutoff)
    /\ indices = {} /\ outlier_status = << >> /\ n_decrements = 0 /\ fo_pc = "idle"
    /\ bar_in = << >> /\ bar_model = << >> /\ bar_fig = << >> /\ bar_pc = "idle"
    /\ sc_points = << >> /\ sc_fig = NoScatterFigure /\ sc_pc = "idle"

\* the state before ViolinPlot.create on a table of one column
InitViolinPlot ==
    /\ config \in TableConfigs
    /\ dt \in {<<c>> : c \in TableColumns}
    /\ ds = NoDataset
    /\ fig = NoFigure
    /\ v_pc = "new" /\ prompt = NoPrompt
    /\ vp_in \in PlotInputs /\ vp = NoPlot /\ vp_html = NoHtml /\ vp_pc = "new"
    /\ values = << >> /\ top_n = None /\ minval = None /\ maxval = None
    /\ z_cutoff_arg = Double(DefaultCutoff) /\ z_cutoff = Double(DefaultCutoff)
    /\ indices = {} /\ outlier_status = << >> /\ n_decrements = 0 /\ fo_pc = "idle"
    /\ bar_in = << >> /\ bar_model = << >> /\ bar_fig = << >> /\ bar_pc = "idle"
    /\ sc_points = << >> /\ sc_fig = NoScatterFigure /\ sc_pc = "idle"

FoNext ==
    \/ ReturnEmpty
    \/ ReturnSameValues
    \/ ReturnTopN
    \/ FirstCutoff
    \/ LowerCutoff
    \/ ReturnCutoff

SpecOutliers ==
    InitOutliers /\ [][FoNext]_vars

ViolinNext == Create \/ CreateFigure

BarNext == BarCreate \/ BarCreateRaises

SpecBar ==
    InitBar /\ [][BarNext]_vars

BarSortNext == BarCreate \/ BarCreateFigure

SpecBarSort ==
    InitBarSort /\ [][BarSortNext]_vars

SpecViolinColours ==
    InitViolinColours /\ [][ViolinNext]_vars

SpecBarReverse ==
    InitBarReverse /\ [][BarSortNext]_vars

ViolinPromptNext == Create \/ FormatDatasetForAiPrompt

SpecViolinPrompt ==
    InitViolinTable /\ [][ViolinPromptNext]_vars

ViolinPlotNext == ViolinPlotCreate \/ AddToReport

SpecViolinPlot ==
    InitViolinPlot /\ [][ViolinPlotNext]_vars

ScatterNext == ScatterCreateFigure

SpecScatter ==
    InitScatter /\ [][ScatterNext]_vars

SpecScatterLegend ==
    InitScatterLegend /\ [][ScatterNext]_vars

SpecBarLists ==
    InitBarLists /\ [][BarNext]_vars

SpecViolin ==
    InitViolin /\ [][ViolinNext]_vars

SpecViolinTable ==
    InitViolinTable /\ [][ViolinNext]_vars

(***************************************************************************)
(* Claims on find_outliers (SpecOutliers).                                 *)
(***************************************************************************)
Flagged == {i \in 1..Len(outlier_status) : outlier_status[i]}

\* C1: on every return path the mask find_outliers returns is as long as values,
\* whatever sentinels (minval, maxval) were supplied.
C1_MaskLengthIsInputLength ==
    fo_pc = "returned" => Len(outlier_status) = Len(values)

\* C2: for a non-empty series whose entries are all equal, the returned mask has no
\* true entry, with or without sentinels, for every top_n and z_cutoff.
C2_ConstantSeriesHasNoOutlier ==
    (/\ fo_pc = "returned"
     /\ values # << >>
     /\ \A i, j \in 1..Len(values) : values[i] = values[j])
    => Flagged = {}

\* C3: with 0 < top_n <= len(values) and a series of non-zero variance, the mask has
\* exactly top_n true entries and they are the entries of values with the largest |z|,
\* also when sentinels are supplied.
C3_TopNFlagsExactlyTopN ==
    (/\ fo_pc = "returned"
     /\ top_n # None
     /\ top_n[1] > 0 /\ top_n[1] <= Len(values)
     /\ ~StdDevIsZero(values))
    => /\ Cardinality(Flagged) = top_n[1]
       /\ \A i \in Flagged, j \in (1..Len(values)) \ Flagged :
             Dev(np_values, i) * Dev(np_values, i) >= Dev(np_values, j) * Dev(np_values, j)

\* C4: started from the default z_cutoff 2.0, the cutoff search performs at most 5
\* decrements and never applies a cutoff below 1.0.
C4_SearchStopsAtOne ==
    z_cutoff_arg = Double(DefaultCutoff)
    => n_decrements <= 5 /\ ~LessThanOne(z_cutoff)

(***************************************************************************)
(* Claims on the violin Dataset (SpecViolin).                              *)
(***************************************************************************)
Built == v_pc \in {"created", "drawn"}
Included == DOMAIN ds.violin_value_by_sample_by_metric
Violin(m) == ds.violin_value_by_sample_by_metric[m]
Cap == config.violin_downsample_after

\* the sort key found at (zero-based) rank r of the series d sorted ascending
KeyAtRank(d, r) ==
    CHOOSE x \in {SortKey(d[i].v) : i \in 1..Len(d)} :
        /\ Cardinality({i \in 1..Len(d) : SortKey(d[i].v) < x}) <= r
        /\ Cardinality({i \in 1..Len(d) : SortKey(d[i].v) <= x}) > r

IsEntryOf(r, d) == \E i \in 1..Len(d) : d[i] = r

DistinctKeys(d) == \A i, j \in 1..Len(d) : i # j => d[i].s # d[j].s

\* C5: with a cap violin_downsample_after >= 1, every metric's violin series has at
\* most cap entries; when the series size n exceeds the cap it holds the entries at
\* sorted ranks 0, k, 2k, ... with k = ceil(n / cap), each with its own sample and value.
C5_DownsampledWithinCap ==
    (Built /\ Cap # None) =>
        \A m \in Included :
            LET d == Series(m)
                n == Len(d)
                k == (n + Cap[1] - 1) \div Cap[1]
                out == Violin(m)
            IN  /\ Len(out) <= Cap[1]
                /\ n > Cap[1] =>
                      /\ Len(out) = Cardinality({r \in 0..(n - 1) : r % k = 0})
                      /\ DistinctKeys(out)
                      /\ \A j \in 1..Len(out) :
                            /\ IsEntryOf(out[j], d)
                            /\ SortKey(out[j].v) = KeyAtRank(d, (j - 1) * k)

C5_Witness ==
    /\ Built /\ Cap # None
    /\ \E m \in Included : Len(Series(m)) > Cap[1] /\ Len(Violin(m)) = 2 /\ Cap[1] = 2

\* C6: a series whose size is <= cap comes back unchanged (same samples, values and
\* order), so downsampling the violin series once more changes nothing.
C6_DownsampleIdempotent ==
    Built =>
        \A m \in Included :
            /\ (Cap = None \/ Len(Series(m)) <= Cap[1]) => Violin(m) = Series(m)
            /\ \A p \in ArgSorts(Violin(m)) : ViolinValueBySample(Violin(m), config, p) = Violin(m)

C6_Witness ==
    /\ Built /\ Cap # None
    /\ \E m \in Included :
          /\ Len(Series(m)) = Cap[1] /\ Cap[1] >= 2
          /\ SortKey(Series(m)[1].v) > SortKey(Series(m)[2].v)
          /\ Violin(m) = Series(m)

MinOf(S) == CHOOSE x \in S : \A y \in S : x <= y
MaxOf(S) == CHOOSE x \in S : \A y \in S : x >= y
ValueSet(d) == {d[i].v.v : i \in 1..Len(d)}

\* C7: whenever a numeric series is downsampled (size n > cap), the minimum and the
\* maximum value of the series are both present in the downsampled output.
C7_ExtremaSurviveDownsampling ==
    Built =>
        \A m \in Included :
            (AllNumeric(Series(m)) /\ NeedsDownsampling(Series(m), config)) =>
                /\ MinOf(ValueSet(Series(m))) \in ValueSet(Violin(m))
                /\ MaxOf(ValueSet(Series(m))) \in ValueSet(Violin(m))

\* what create_figure drew as point layer of metric m, when it drew m with add_scatter
PointLayerDrawn(m) == v_pc = "drawn" /\ fig.add_scatter /\ m \in DOMAIN fig.points

\* C10 (as stated): for every metric whose series size is <= violin_min_threshold_no_points,
\* all points of the series are the point layer and find_outliers is not called,
\* whatever violin_min_threshold_outliers is.
C10_AllPointsBelowNoPointsThreshold ==
    Built =>
        \A m \in Included :
            Len(Series(m)) <= config.violin_min_threshold_no_points =>
                /\ m \notin ds.find_outliers_calls
                /\ PointLayerDrawn(m) => fig.points[m] = Series(m)

\* C10 (amended): for every metric whose series size is <= violin_min_threshold_no_points
\* and <= violin_min_threshold_outliers, find_outliers is not called and the point layer
\* create_figure draws is the metric's violin series: all points of the series unless the
\* series was thinned by violin_downsample_after.
C10_AllPointsBelowBothThresholds ==
    Built =>
        \A m \in Included :
            (/\ Len(Series(m)) <= config.violin_min_threshold_no_points
             /\ Len(Series(m)) <= config.violin_min_threshold_outliers) =>
                /\ m \notin ds.find_outliers_calls
                /\ ds.scatter_value_by_sample_by_metric[m] = << >>
                /\ PointLayerDrawn(m) =>
                      /\ fig.points[m] = Violin(m)
                      /\ ~NeedsDownsampling(Series(m), config) => fig.points[m] = Series(m)

C10_Witness ==
    \E m \in Included :
        /\ PointLayerDrawn(m)
        /\ AllNumeric(Series(m))
        /\ Len(Series(m)) = 2
        /\ Len(Series(m)) <= config.violin_min_threshold_no_points
        /\ Len(Series(m)) <= config.violin_min_threshold_outliers
        /\ fig.points[m] = Series(m)

(***************************************************************************)
(* Claims on the bar percentage pass (SpecBar).                            *)
(***************************************************************************)
PctDone == bar_pc = "ready" /\ bar_in.add_pct_tab
BarCatIds == 1..Len(bar_model.cats)
BarSampleIds == 1..Len(bar_model.samples)
Data(c, i) == bar_model.cats[c].data[i]
DataPct(c, i) == bar_model.cats[c].data_pct[i]

AbsOf(x) == IF IsNan(x) THEN NaN ELSE Num(AbsInt(x.n), x.d)

\* the sum over the categories of the absolute non-NaN values at sample index i
TotalAt(i) == Sum([c \in BarCatIds |-> IF IsNan(Data(c, i)) THEN 0 ELSE AbsInt(Data(c, i).n)])

\* C8 (as stated): after the percentage pass, at every sample index where at least one
\* category has a non-zero value, the absolute values of data_pct over the categories
\* sum to 100.
C8_PercentagesSumTo100 ==
    PctDone =>
        \A i \in BarSampleIds :
            (\E c \in BarCatIds : ~SameNumber(Data(c, i), Zero)) =>
                SameNumber(PySum([c \in BarCatIds |-> AbsOf(DataPct(c, i))]), Num(100, 1))

\* C8 (amended): at every sample index where at least one category has a non-zero,
\* non-NaN value, the absolute values of data_pct over the categories whose value there
\* is not NaN sum to 100; the data_pct of a NaN value is NaN.
C8_NonNanPercentagesSumTo100 ==
    PctDone =>
        \A i \in BarSampleIds :
            (\E c \in BarCatIds : ~IsNan(Data(c, i)) /\ Data(c, i).n # 0) =>
                /\ SameNumber(
                       PySum([c \in BarCatIds |->
                                 IF IsNan(Data(c, i)) THEN Zero ELSE AbsOf(DataPct(c, i))]),
                       Num(100, 1))
                /\ \A c \in BarCatIds : IsNan(Data(c, i)) => IsNan(DataPct(c, i))

C8_Witness ==
    /\ PctDone
    /\ \E i \in BarSampleIds :
          /\ \E c \in BarCatIds : IsNan(Data(c, i))
          /\ \E c \in BarCatIds : ~IsNan(Data(c, i)) /\ Data(c, i).n # 0
    /\ \E i \in BarSampleIds :
          /\ \E c \in BarCatIds : ~IsNan(Data(c, i)) /\ Data(c, i).n < 0
          /\ \E c \in BarCatIds : ~IsNan(Data(c, i)) /\ Data(c, i).n > 0

\* the example of the claim: X = [1, 1], Y = [1, 3] over the samples s1, s2, relative mode
ExampleInput ==
    /\ bar_in.n_samples = 2
    /\ bar_in.stacking = "relative"
    /\ bar_in.cats = <<[name |-> Some(1), data |-> <<Num(1, 1), Num(1, 1)>>, data_pct |-> None],
                       [name |-> Some(2), data |-> <<Num(1, 1), Num(3, 1)>>, data_pct |-> None]>>

\* the percentage of the category named x at the sample s, as a number
PctOf(x, s, q) ==
    \E c \in BarCatIds, i \in BarSampleIds :
        /\ bar_model.cats[c].name = x /\ bar_model.samples[i] = s
        /\ SameNumber(DataPct(c, i), Num(q, 1))

\* C9: for every category c and sample s the percentage pass yields data_pct[c][s] = 0
\* when the categories' absolute non-NaN values at s sum to 0, and data[c][s] / sum * 100
\* (with the sign of data[c][s]) otherwise; X = [1, 1], Y = [1, 3] over s1, s2 in relative
\* mode gives s1: X = 50, Y = 50 and s2: X = 25, Y = 75.
C9_PercentageFormula ==
    PctDone =>
        /\ \A c \in BarCatIds, i \in BarSampleIds :
              IF TotalAt(i) = 0 THEN DataPct(c, i) = Zero
              ELSE IF IsNan(Data(c, i)) THEN IsNan(DataPct(c, i))
              ELSE /\ ~IsNan(DataPct(c, i))
                   /\ DataPct(c, i).d > 0
                   /\ DataPct(c, i).n * TotalAt(i) = Data(c, i).n * 100 * DataPct(c, i).d
        /\ ExampleInput =>
              PctOf(1, 1, 50) /\ PctOf(2, 1, 50) /\ PctOf(1, 2, 25) /\ PctOf(2, 2, 75)

C9_Witness ==
    /\ PctDone /\ ExampleInput
    /\ PctOf(1, 1, 50) /\ PctOf(2, 1, 50) /\ PctOf(1, 2, 25) /\ PctOf(2, 2, 75)

(***************************************************************************)
(* Claims on the outliers-only point layer (SpecViolin).                   *)
(***************************************************************************)
Scatter(m) == ds.scatter_value_by_sample_by_metric[m]

\* the samples of metric m that find_outliers flags when it is given the values of the
\* series and the column's dmin and dmax as minval and maxval
FlaggedSamples(m) ==
    LET d    == Series(m)
        mask == FindOutliersDefault(IntsOf(d), dt[m].dmin, dt[m].dmax)
    IN  {d[i].s : i \in {j \in 1..Len(d) : mask[j]}}

\* the entries of the series of m whose sample is in S, in the order of the series
EntriesOn(m, S) ==
    LET OnS(r) == r.s \in S
    IN  SelectSeq(Series(m), OnS)

\* C11 (as stated): every all-numeric metric whose series size is
\* > violin_min_threshold_outliers gets as point layer exactly the samples find_outliers
\* flags (called with the column's dmin/dmax), and create_figure draws those points; a
\* non-numeric metric of that size gets no point layer.
C11_OutlierLayerAboveOutliersThreshold ==
    Built =>
        \A m \in Included :
            Len(Series(m)) > config.violin_min_threshold_outliers =>
                IF AllNumeric(Series(m))
                THEN /\ Scatter(m) = EntriesOn(m, FlaggedSamples(m))
                     /\ PointLayerDrawn(m) => fig.points[m] = EntriesOn(m, FlaggedSamples(m))
                ELSE /\ Scatter(m) = << >>
                     /\ PointLayerDrawn(m) => fig.points[m] = << >>

\* C11 (amended): the same for every all-numeric metric whose series size is
\* > violin_min_threshold_outliers and <= violin_min_threshold_no_points; a non-numeric
\* metric of a size > violin_min_threshold_outliers gets no point layer.
C11_OutlierLayerBetweenThresholds ==
    Built =>
        \A m \in Included :
            Len(Series(m)) > config.violin_min_threshold_outliers =>
                IF AllNumeric(Series(m))
                THEN Len(Series(m)) <= config.violin_min_threshold_no_points =>
                        /\ Scatter(m) = EntriesOn(m, FlaggedSamples(m))
                        /\ PointLayerDrawn(m) =>
                              fig.points[m] = EntriesOn(m, FlaggedSamples(m))
                ELSE /\ Scatter(m) = << >>
                     /\ PointLayerDrawn(m) => fig.points[m] = << >>

\* an outliers-only layer was drawn: one of two samples, flagged thanks to the sentinel
C11_Witness ==
    \E m \in Included :
        /\ PointLayerDrawn(m)
        /\ AllNumeric(Series(m))
        /\ Len(Series(m)) = 2
        /\ Len(Series(m)) > config.violin_min_threshold_outliers
        /\ Len(Series(m)) <= config.violin_min_threshold_no_points
        /\ dt[m].dmax # None
        /\ Len(fig.points[m]) = 1
        /\ fig.points[m] = EntriesOn(m, FlaggedSamples(m))

\* the series of metric m was thinned by downsampling: its size exceeded the cap
Thinned(m) == Cap # None /\ Len(Series(m)) > Cap[1] /\ Len(Violin(m)) < Len(Series(m))

\* C12: whenever at least one metric's series is thinned by downsampling (its size
\* exceeded violin_downsample_after), the dataset's is_downsampled flag is true, the flag
\* on which the prompt export adds its downsampling notice.
C12_ThinnedImpliesIsDownsampled ==
    Built => ((\E m \in Included : Thinned(m)) => ds.is_downsampled)

(***************************************************************************)
(* Claims on the axis range (SpecViolin).  A range is in units of          *)
(* 1 / RangeUnit.                                                          *)
(***************************************************************************)
Header(m) == ds.header_by_metric[m]
Declared(m, lo, hi) == dt[m].dmin = Some(lo) /\ dt[m].dmax = Some(hi)

\* C13: for every numeric metric with declared dmin == dmax == 0 the axis range that
\* Dataset.create sets is non-degenerate (max > min) and the tick list contains 0,
\* whether or not a point layer is shown.
C13_ZeroRangeIsNonDegenerate ==
    Built =>
        \A m \in Included :
            (AllNumeric(Series(m)) /\ Declared(m, 0, 0)) =>
                LET x == Header(m).xaxis
                IN  /\ x.range # None
                    /\ x.range[1][1] < x.range[1][2]
                    /\ x.tickvals # None
                    /\ \E i \in 1..Len(x.tickvals[1]) : x.tickvals[1][i] = 0

\* a 0:0 metric with a point layer: its range is [-0.005, 1.005025], its tick list [0]
C13_Witness ==
    /\ Built
    /\ \E m \in Included :
          /\ AllNumeric(Series(m)) /\ Declared(m, 0, 0)
          /\ Header(m).show_points
          /\ Header(m).xaxis.range = Some(<<0 - PadDen, RangeUnit + PadDen + 1>>)
          /\ Header(m).xaxis.tickvals = Some(<<0>>)

\* C14: when a point layer is shown (show_points) and both bounds are known, the range is
\* [xmin - 0.005 * span, xmax + 0.005 * span] with span = xmax - xmin taken before any
\* padding: the same margin on the lower and on the upper side.
C14_PaddingIsSymmetric ==
    Built =>
        \A m \in Included :
            (/\ AllNumeric(Series(m)) /\ Header(m).show_points
             /\ dt[m].dmin # None /\ dt[m].dmax # None) =>
                LET xmin == dt[m].dmin[1] * RangeUnit
                    xmax == (IF Declared(m, 0, 0) THEN 1 ELSE dt[m].dmax[1]) * RangeUnit
                    span == xmax - xmin
                IN  Header(m).xaxis.range = Some(<<xmin - span \div PadDen, xmax + span \div PadDen>>)

\* C15 (as stated): for every numeric metric the range is the declared [dmin, dmax] when
\* both are supplied and otherwise the minimum and maximum of the metric's finite values
\* (0:0 remapped and the range widened for a point layer, as C13 and C14 say); a numeric
\* metric with values never ends with an unset range.
C15_RangeDeclaredOrComputed ==
    Built =>
        \A m \in Included :
            AllNumeric(Series(m)) =>
                LET both == dt[m].dmin # None /\ dt[m].dmax # None
                    lo   == IF both THEN dt[m].dmin[1] ELSE MinOf(ValueSet(Series(m)))
                    hi   == IF both THEN dt[m].dmax[1] ELSE MaxOf(ValueSet(Series(m)))
                    r    == Header(m).xaxis.range
                IN  /\ r # None
                    /\ (~Header(m).show_points /\ ~(lo = 0 /\ hi = 0)) =>
                          r = Some(<<lo * RangeUnit, hi * RangeUnit>>)

\* C15 (amended): for every numeric metric with values the range is set from the declared
\* [dmin, dmax] when both are supplied: [dmin, dmax] itself, [0, 1] for 0:0, and with a
\* point layer a range padded around it (it contains [dmin, dmax] when dmin <= dmax); when
\* a bound is missing the range is left unset.
C15_RangeDeclaredOrUnset ==
    Built =>
        \A m \in Included :
            AllNumeric(Series(m)) =>
                LET r == Header(m).xaxis.range
                IN  IF dt[m].dmin # None /\ dt[m].dmax # None
                    THEN LET xmin == dt[m].dmin[1] * RangeUnit
                             xmax == (IF Declared(m, 0, 0) THEN 1 ELSE dt[m].dmax[1]) * RangeUnit
                         IN  /\ r # None
                             /\ ~Header(m).show_points => r = Some(<<xmin, xmax>>)
                             /\ (Header(m).show_points /\ xmin <= xmax) =>
                                   r[1][1] <= xmin /\ xmax <= r[1][2]
                    ELSE r = None

\* a numeric metric with declared bounds 0 and 1 and no point layer: its range is [0, 1]
C15_Witness ==
    /\ Built
    /\ \E m \in Included :
          /\ AllNumeric(Series(m)) /\ Declared(m, 0, 1)
          /\ ~Header(m).show_points
          /\ Header(m).xaxis.range = Some(<<0, RangeUnit>>)

(***************************************************************************)
(* Claims on a table of several metrics (SpecViolinTable).                 *)
(***************************************************************************)
\* the metric has no value in any row
NoValues(m) == \A i \in 1..MaxSamples : dt[m].cells[i] = None

\* every value the metric has is a NaN
AllNonFinite(m) == \A i \in 1..MaxSamples : dt[m].cells[i] \in {None, Some(NaNCell)}

InDataset(m) ==
    /\ \E i \in 1..Len(ds.metrics) : ds.metrics[i] = m
    /\ m \in DOMAIN ds.violin_value_by_sample_by_metric
    /\ m \in DOMAIN ds.scatter_value_by_sample_by_metric

NotInDataset(m) ==
    /\ \A i \in 1..Len(ds.metrics) : ds.metrics[i] # m
    /\ m \notin DOMAIN ds.violin_value_by_sample_by_metric
    /\ m \notin DOMAIN ds.scatter_value_by_sample_by_metric

\* C16: a metric whose values are all non-finite, or which has no values, is in neither
\* metrics nor the violin and scatter value maps; Dataset.create still returns, and every
\* other metric of the table is in all three, with the values it has.
C16_NonFiniteMetricExcluded ==
    Built =>
        \A m \in 1..Len(dt) :
            IF NoValues(m) \/ AllNonFinite(m)
            THEN NotInDataset(m)
            ELSE /\ InDataset(m)
                 /\ Violin(m) # << >>
                 /\ \A j \in 1..Len(Violin(m)) :
                       dt[m].cells[Violin(m)[j].s] = Some(Violin(m)[j].v)

\* a table whose first metric holds only NaN and whose second holds a number
C16_Witness ==
    /\ Built
    /\ Len(dt) = 2
    /\ ~NoValues(1) /\ AllNonFinite(1)
    /\ \E i \in 1..MaxSamples : dt[2].cells[i] = Some(IntCell(1))
    /\ ds.metrics = <<2>>
    /\ NotInDataset(1) /\ InDataset(2)

(***************************************************************************)
(* Claims on malformed bar input (SpecBar, SpecBarLists).                  *)
(***************************************************************************)
BarReturned == bar_pc \in {"ready", "ValueError", "AssertionError"}
InCatIds == 1..Len(bar_in.cats)
LacksName(c) == bar_in.cats[c].name = None
DataLen(c) == Len(bar_in.cats[c].data)

\* the category supplies a non-empty data_pct
SuppliesPct(c) == bar_in.cats[c].data_pct # None /\ bar_in.cats[c].data_pct # Some(<< >>)
WrongLength(c) ==
    \/ DataLen(c) # bar_in.n_samples
    \/ SuppliesPct(c) /\ Len(bar_in.cats[c].data_pct[1]) # bar_in.n_samples

\* C18: a category whose data is shorter than the sample list is padded with zeros, so
\* that BarPlot.create completes and in the finished plot len(cat.data) == len(samples)
\* for every category (the input being well-formed otherwise).
C18_ShortSeriesPadded ==
    (/\ BarReturned
     /\ \A c \in InCatIds : ~LacksName(c) /\ DataLen(c) <= bar_in.n_samples
     /\ \E c \in InCatIds : DataLen(c) < bar_in.n_samples) =>
        /\ bar_pc = "ready"
        /\ \A c \in BarCatIds : Len(bar_model.cats[c].data) = Len(bar_model.samples)

Drawn == sc_pc = "drawn"

\* the dataset holds two points at (0, 0) and then one point at (100, 100)
ScenarioABC ==
    /\ Len(sc_points) = 2
    /\ sc_points[1].x = IntCell(0) /\ sc_points[1].y = IntCell(0) /\ sc_points[1].n = 2
    /\ sc_points[2].x = IntCell(100) /\ sc_points[2].y = IntCell(100) /\ sc_points[2].n = 1
    /\ \A i \in 1..2 : sc_points[i].annotate

\* C19: a call of create_figure on a dataset with numeric x and y and fewer than
\* MAX_ANNOTATIONS annotated points leaves at most MAX_ANNOTATIONS points with an
\* annotation, whatever the input; for two points at (0, 0) and one at (100, 100) the
\* point at (100, 100) is annotated.
C19_AtMostTenAnnotations ==
    [][(/\ ScatterCreateFigure
        /\ XAreNumeric(sc_points) /\ YAreNumeric(sc_points)
        /\ NAnnotated(sc_points) < MAX_ANNOTATIONS) =>
           /\ NAnnotated(sc_points') <= MAX_ANNOTATIONS
           /\ ScenarioABC => sc_points'[2].annotation]_vars

\* C20: every legend label has at most MAX_WIDTH characters, the ellipsis included.
C20_LegendLabelWithinWidth ==
    Drawn => \A j \in 1..Len(sc_fig.legend) : Len(sc_fig.legend[j].label) <= MAX_WIDTH

(***************************************************************************)
(* Claims on ViolinPlot.create and add_to_report (SpecViolinPlot).         *)
(***************************************************************************)
PlotBuilt == vp_pc \in {"created", "reported"}
AboveCeiling == vp.n_samples > vp_in.max_table_rows

\* C21, as stated: when the largest per-dataset sample count exceeds
\* config.max_table_rows, the plot built by ViolinPlot.create shows the table
\* (ViolinPlot.create has no argument that forces violins).
C21_TableShownAboveCeiling ==
    (PlotBuilt /\ AboveCeiling) => vp.show_table

\* C21, amended: above config.max_table_rows the table is dropped (show_table is False
\* and add_to_report renders the violin alone, with a warning) unless no_violin is set;
\* in every other case show_table is True and add_to_report renders the violin and the
\* table, the table being the visible one exactly when show_table_by_default or
\* no_violin is set.
C21_TableDroppedAboveCeiling ==
    PlotBuilt =>
        /\ vp.show_table = ~(AboveCeiling /\ ~vp_in.no_violin)
        /\ vp.show_table_by_default = (vp_in.show_table_by_default \/ vp_in.no_violin)
        /\ vp_pc = "reported" =>
              /\ vp_html.violin
              /\ vp_html.table = vp.show_table
              /\ vp_html.warning = ~vp.show_table
              /\ vp.show_table => (vp_html.table_hidden = ~vp.show_table_by_default)
              /\ vp.show_table => (vp_html.violin_hidden = vp.show_table_by_default)

\* a report rendered for a table above the ceiling without no_violin: the violin alone
C21_Witness ==
    /\ vp_pc = "reported"
    /\ AboveCeiling
    /\ ~vp_in.no_violin
    /\ vp_in.show_table_by_default
    /\ ~vp_html.table
    /\ vp_html.violin

(***************************************************************************)
(* Claims on the assembled plot models.                                    *)
(***************************************************************************)
\* C22: once a dataset is assembled, a create_figure call leaves its stored data as
\* they were: the scatter points with their keys, the bar categories and samples, the
\* violin value maps and headers.
C22_CreateFigureLeavesDataset ==
    [][/\ ScatterCreateFigure => sc_points' = sc_points
       /\ CreateFigure => ds' = ds
       /\ BarCreateFigure => bar_model' = bar_model]_vars

\* C23: violin Dataset.create (with values_and_headers_from_dt) leaves the input
\* DataTable unchanged, the colour of every column included, so that a second build
\* from the same DataTable reads the column metadata the first one read.
C23_CreateLeavesDataTable ==
    [][Create => dt' = dt]_vars

(***************************************************************************)
(* Claims on the passes of BarPlot.create (SpecBarSort, SpecBar).          *)
(***************************************************************************)
BarReady == bar_pc = "ready"
SumOfData(c) == PySum(bar_model.cats[c].data)

\* every input category is in the result once, whole: its name with its reversed data
WholeCategories ==
    /\ Len(bar_model.cats) = Len(bar_in.cats)
    /\ \A c \in InCatIds :
          \E k \in BarCatIds :
              /\ bar_model.cats[k].name = bar_in.cats[c].name[1]
              /\ bar_model.cats[k].data = Reversed(bar_in.cats[c].data)

\* each category's data_pct is the percentage of its own data at every sample index
PctMatchesData ==
    \A c \in BarCatIds, i \in BarSampleIds :
        DataPct(c, i) = Percent(Data(c, i), TotalAt(i))

\* no category stands before one with a smaller sum of data
AscendingBySum ==
    \A c, k \in BarCatIds : c < k => ~Less(SumOfData(k), SumOfData(c))

\* C24: BarPlot.create ends READY with the percentage pass done before the log-scale
\* reorder: with add_pct_tab every category's data_pct corresponds to its own data at
\* every sample index, also after the reorder; with add_log_tab the categories are
\* whole and in ascending order of their sum of data.
C24_PassesInOrder ==
    BarReady =>
        /\ WholeCategories
        /\ bar_in.add_pct_tab => PctMatchesData
        /\ bar_in.add_log_tab => AscendingBySum

\* the values of the dataset that are numbers, and the per-sample sums of the positive
\* and of the negative ones
NumbersOfData == {Data(c, i) : c \in BarCatIds, i \in BarSampleIds} \ {NaN}
PositiveSum(i) == Sum([c \in BarCatIds |-> IF Less(Zero, Data(c, i)) THEN Data(c, i).n ELSE 0])
NegativeSum(i) == Sum([c \in BarCatIds |-> IF Less(Data(c, i), Zero) THEN Data(c, i).n ELSE 0])

LargestNumber(x) == x \in NumbersOfData /\ \A v \in NumbersOfData : ~Less(x, v)
SmallestNumber(x) == x \in NumbersOfData /\ \A v \in NumbersOfData : ~Less(v, x)

LargestPositiveSum(x) ==
    /\ \E i \in BarSampleIds : SameNumber(x, Num(PositiveSum(i), 1))
    /\ \A i \in BarSampleIds : ~Less(x, Num(PositiveSum(i), 1))

SmallestNegativeSum(x) ==
    /\ \E i \in BarSampleIds : SameNumber(x, Num(NegativeSum(i), 1))
    /\ \A i \in BarSampleIds : ~Less(Num(NegativeSum(i), 1), x)

EffectiveMode ==
    IF bar_in.stacking = "None" THEN "group"
    ELSE IF bar_in.stacking = "normal" THEN "relative"
    ELSE bar_in.stacking

\* C27: for a bar dataset with at least one sample and one category the extrema follow
\* the effective stacking mode (None is group, normal is relative): in group mode they
\* are the largest and the smallest single value of the data (where the data hold a
\* number), in every other mode the largest per-sample sum of the positive values and
\* the smallest per-sample sum of the negative values; minallowed is never greater than
\* 0; in the stacked modes the minimum of the percentage range is within [-100, 0].
C27_ExtremaFollowStackingMode ==
    BarReady =>
        /\ bar_model.barmode = EffectiveMode
        /\ IF EffectiveMode = "group"
           THEN NumbersOfData # {} =>
                   /\ LargestNumber(bar_model.xmax_cnt)
                   /\ SmallestNumber(bar_model.xmin_cnt)
           ELSE /\ LargestPositiveSum(bar_model.xmax_cnt)
                /\ SmallestNegativeSum(bar_model.xmin_cnt)
        /\ ~Less(Zero, bar_model.minallowed)
        /\ (EffectiveMode # "group" /\ bar_in.add_pct_tab) =>
              /\ ~IsNan(bar_model.pct_range_min[1])
              /\ ~Less(bar_model.pct_range_min[1], Num(0 - 100, 1))
              /\ ~Less(Zero, bar_model.pct_range_min[1])

\* the result category that carries the name of input category c
ResultOf(c) == CHOOSE k \in BarCatIds : bar_model.cats[k].name = bar_in.cats[c].name[1]
NSamples == bar_in.n_samples

C25_KeptNumbersAreFinite ==
    Built =>
        \A m \in Included :
            /\ \A j \in 1..Len(Violin(m)) : IsNumber(Violin(m)[j].v) => IsFinite(Violin(m)[j].v)
            /\ \A j \in 1..Len(Scatter(m)) : IsNumber(Scatter(m)[j].v) => IsFinite(Scatter(m)[j].v)

\* C28: for every metric the outlier point layer is non-empty only when the size of the
\* series (after pruning) is at most violin_min_threshold_no_points, so its size never
\* exceeds that threshold; with violin_downsample_after set, the violin values are at
\* most that many.
C28_PayloadBoundedByConfiguration ==
    Built =>
        \A m \in Included :
            /\ Scatter(m) # << >> => Len(Series(m)) <= config.violin_min_threshold_no_points
            /\ Len(Scatter(m)) <= config.violin_min_threshold_no_points
            /\ Cap # None => Len(Violin(m)) <= Cap[1]

\* a metric with a non-empty outlier layer whose violin values were downsampled
C28_Witness ==
    /\ Built
    /\ \E m \in Included :
          /\ Scatter(m) # << >>
          /\ Cap # None
          /\ Len(Series(m)) > Cap[1]
          /\ Len(Violin(m)) <= Cap[1]

(***************************************************************************)
(* Claims on format_dataset_for_ai_prompt (SpecViolinPrompt).              *)
(***************************************************************************)
Prompted == prompt.raised # "no call"

\* C29: format_dataset_for_ai_prompt succeeds on every dataset Dataset.create produced,
\* also when a metric was excluded: it reads no metric key that is absent from the value
\* maps, and it emits one row, with one cell per header, for each sample of all_samples.
C29_PromptSucceeds ==
    Prompted =>
        /\ prompt.raised = "none"
        /\ Len(prompt.rows) = Len(ds.all_samples)
        /\ \A j \in 1..Len(prompt.rows) :
              /\ prompt.rows[j].sample = ds.all_samples[j]
              /\ Len(prompt.rows[j].cells) = Len(dt)

(***************************************************************************)
(* Claims on repeated scatter create_figure calls (SpecScatter).           *)
(***************************************************************************)
\* C30: after a first create_figure call a further call on the same dataset leaves the
\* set of annotated points unchanged, and the threshold search of a call (from 1.0
\* upward in steps of 0.2 while <= 6.0) runs its loop body at most 26 times.
C30_AnnotationIsIdempotent ==
    [][ScatterCreateFigure =>
          /\ (XAreNumeric(Annotatable(sc_points)) /\ YAreNumeric(Annotatable(sc_points))) =>
                ThresholdsTried(Annotatable(sc_points), NAnnotated(sc_points),
                                Double(FirstThreshold)) <= 26
          /\ sc_pc = "drawn" =>
                /\ Len(sc_points') = Len(sc_points)
                /\ \A i \in 1..Len(sc_points) :
                      sc_points'[i].annotation = sc_points[i].annotation]_vars

\* a drawn dataset on which a further call searches again: fewer than MAX_ANNOTATIONS
\* points are annotated, one of them by the first call's search, more than
\* MAX_ANNOTATIONS points are not
C30_Witness ==
    /\ Drawn
    /\ XAreNumeric(sc_points) /\ YAreNumeric(sc_points)
    /\ NAnnotated(sc_points) > 0
    /\ NAnnotated(sc_points) < MAX_ANNOTATIONS
    /\ NPoints(Annotatable(sc_points)) - NAnnotated(sc_points) > MAX_ANNOTATIONS
    /\ XVarN(Annotatable(sc_points)) + YVarN(Annotatable(sc_points)) > 0

=============================================================================
